---- MODULE Spec2Model ----
(***************************************************************************)
(* Model of the cf-graphdb-api worker: the router (routes.ts), the auth    *)
(* gate (auth.ts, middleware.ts), the fetch entry point (index.ts) and the *)
(* graph engine's node, edge and import/export handlers over the durable   *)
(* store (D1) and the node cache (KV).                                     *)
(*                                                                         *)
(* Strings of the program are sequences of atoms: "/a/nodes/n1" is         *)
(* <<"/","a","/","nodes","/","n1">>, "a:read,b:write" is                   *)
(* <<"a",":","read",",","b",":","write">>.  split, join, startsWith and    *)
(* includes work on these sequences as the JavaScript methods work on      *)
(* characters, so that a key or a scope built by concatenation can collide *)
(* or be cut in the model exactly where it can in the program.             *)
(***************************************************************************)
EXTENDS Integers, Sequences, FiniteSets, TLC

(***************************************************************************)
(* Bounds of the model.                                                    *)
(***************************************************************************)
MaxSegs == 4        \* longest path, in segments, given to matchRoute
MaxScopes == 2      \* most scopes in a permissions claim
MaxRequests == 2    \* requests served in one behaviour
MaxNow == 1         \* last value of the clock
MaxLife == 3        \* requests served in one behaviour of the lifecycle

Null == [null |-> TRUE]         \* a null / undefined object
Undefined == <<"undefined">>    \* an undefined string

(***************************************************************************)
(* String helpers.                                                         *)
(***************************************************************************)
Str(a) == <<a>>

RECURSIVE Split(_, _)
\* String.prototype.split(sep), sep one atom: always at least one piece.
Split(s, sep) ==
    IF \A i \in 1..Len(s) : s[i] # sep
    THEN <<s>>
    ELSE LET i == CHOOSE k \in 1..Len(s) :
                      s[k] = sep /\ \A j \in 1..(k - 1) : s[j] # sep
         IN  <<SubSeq(s, 1, i - 1)>> \o Split(SubSeq(s, i + 1, Len(s)), sep)

RECURSIVE Join(_, _)
\* Array.prototype.join(sep) of an array of strings.
Join(arr, sep) ==
    IF Len(arr) = 0 THEN <<>>
    ELSE IF Len(arr) = 1 THEN arr[1]
    ELSE arr[1] \o <<sep>> \o Join(Tail(arr), sep)

StartsWith(s, p) == Len(s) >= Len(p) /\ SubSeq(s, 1, Len(p)) = p

Includes(s, p) ==
    \E i \in 1..(Len(s) + 1) :
        i + Len(p) - 1 <= Len(s) /\ SubSeq(s, i, i + Len(p) - 1) = p

(***************************************************************************)
(* routes.ts: the route map.                                               *)
(***************************************************************************)
P_nodes    == <<"/", ":", "orgId", "/", "nodes">>
P_node     == <<"/", ":", "orgId", "/", "nodes", "/", ":", "id">>
P_edges    == <<"/", ":", "orgId", "/", "edges">>
P_edgeId   == <<"/", ":", "orgId", "/", "edge", "/", ":", "id">>
P_edge     == <<"/", ":", "orgId", "/", "edge">>
P_query    == <<"/", ":", "orgId", "/", "query">>
P_traverse == <<"/", ":", "orgId", "/", "traverse">>
P_export   == <<"/", ":", "orgId", "/", "metadata", "/", "export">>
P_import   == <<"/", ":", "orgId", "/", "metadata", "/", "import">>

\* Object.keys(routeMap), in insertion order.
RoutePatterns ==
    <<P_nodes, P_node, P_edges, P_edgeId, P_edge, P_query, P_traverse,
      P_export, P_import>>

Route(h, lvl) == [handler |-> h, requiredPermission |-> Str(lvl)]

\* routeMap[pattern]: the methods the pattern defines.
RouteMap(pattern) ==
    CASE pattern = P_nodes ->
             ("POST" :> Route("createNode", "write")) @@
             ("GET" :> Route("getNodes", "read"))
      [] pattern = P_node ->
             ("GET" :> Route("getNode", "read")) @@
             ("PUT" :> Route("updateNode", "write")) @@
             ("DELETE" :> Route("deleteNode", "write"))
      [] pattern = P_edges ->
             ("GET" :> Route("getEdges", "read"))
      [] pattern = P_edgeId ->
             ("GET" :> Route("getEdge", "read")) @@
             ("PUT" :> Route("updateEdge", "write")) @@
             ("PATCH" :> Route("updateEdge", "write")) @@
             ("DELETE" :> Route("deleteEdge", "write"))
      [] pattern = P_edge ->
             ("POST" :> Route("createEdge", "write"))
      [] pattern = P_query ->
             ("POST" :> Route("queryGraph", "read"))
      [] pattern = P_traverse ->
             ("POST" :> Route("traverseGraph", "read"))
      [] pattern = P_export ->
             ("GET" :> Route("exportMetadata", "read"))
      [] pattern = P_import ->
             ("POST" :> Route("importMetadata", "write"))

IsRouteKey(path) == \E i \in 1..Len(RoutePatterns) : RoutePatterns[i] = path

\* routeMap[pattern][method], Null when the pattern does not define it.
RouteConfig(pattern, method) ==
    IF method \in DOMAIN RouteMap(pattern) THEN RouteMap(pattern)[method]
    ELSE Null

NoParams == [k \in {} |-> <<>>]

\* compareParts: the literal parts of the pattern equal the path's parts.
compareParts(patternParts, pathParts) ==
    \A i \in 1..Len(patternParts) :
        \/ StartsWith(patternParts[i], <<":">>)
        \/ (i <= Len(pathParts) /\ patternParts[i] = pathParts[i])

\* The loop body of matchRoute for one pattern: TRUE when the loop returns.
PatternMatches(pattern, path) ==
    LET patternParts == Split(pattern, "/")
        pathParts == Split(path, "/")
    IN  /\ Includes(pattern, <<":", "orgId">>)
        /\ StartsWith(path, <<"/">>)
        /\ Len(pathParts) >= 2
        /\ Len(patternParts) = Len(pathParts)
        /\ compareParts(patternParts, pathParts)

\* The params the loop returns for a pattern that matches.
MatchParams(pattern, path) ==
    LET parts == Split(path, "/")
    IN  IF Includes(pattern, <<":", "id">>) /\ Len(parts) >= 4
        THEN ("orgId" :> parts[2]) @@ ("id" :> parts[4])
        ELSE ("orgId" :> parts[2])

RECURSIVE FirstMatch(_, _)
\* The loop over Object.keys(routeMap) from index i: the index of the first
\* pattern that matches, 0 when the loop ends without one.
FirstMatch(i, path) ==
    IF i > Len(RoutePatterns) THEN 0
    ELSE IF PatternMatches(RoutePatterns[i], path) THEN i
    ELSE FirstMatch(i + 1, path)

\* matchRoute(path): [pattern, params], or Null.
matchRoute(path) ==
    IF IsRouteKey(path)
    THEN [pattern |-> path, params |-> NoParams]
    ELSE LET i == FirstMatch(1, path)
         IN  IF i = 0 THEN Null
             ELSE [pattern |-> RoutePatterns[i],
                   params |-> MatchParams(RoutePatterns[i], path)]

(***************************************************************************)
(* auth.ts: permission scopes.                                             *)
(***************************************************************************)
Levels == <<Str("read"), Str("write"), Str("audit")>>

\* Array.prototype.indexOf on Levels, 0-based, -1 when absent.
LevelIndex(l) ==
    IF \E i \in 1..Len(Levels) : Levels[i] = l
    THEN (CHOOSE i \in 1..Len(Levels) : Levels[i] = l) - 1
    ELSE -1

\* hasRequiredLevel with the comparison made strict.
hasRequiredLevel_strict(userLevel, requiredLevel) ==
    IF userLevel = Str("*") THEN TRUE
    ELSE IF LevelIndex(userLevel) = -1 \/ LevelIndex(requiredLevel) = -1
         THEN FALSE
         ELSE LevelIndex(userLevel) > LevelIndex(requiredLevel)

hasRequiredLevel(userLevel, requiredLevel) ==
    IF userLevel = Str("*") THEN TRUE
    ELSE IF LevelIndex(userLevel) = -1 \/ LevelIndex(requiredLevel) = -1
         THEN FALSE
         ELSE LevelIndex(userLevel) >= LevelIndex(requiredLevel)

\* const [scopeOrg, level] = scope.split(':'): a missing part is undefined.
ScopeOrg(scope) == Split(scope, ":")[1]
ScopeLevel(scope) ==
    IF Len(Split(scope, ":")) >= 2 THEN Split(scope, ":")[2] ELSE Undefined

\* The iteration with the comparison of the org left out.
ScopeGrants_anyOrg(scope, orgId, requiredLevel) ==
    \/ (ScopeOrg(scope) = Str("*") /\ ScopeLevel(scope) = Str("*"))
    \/ hasRequiredLevel(ScopeLevel(scope), requiredLevel)

\* One iteration of the loop of hasPermission returns true.
ScopeGrants(scope, orgId, requiredLevel) ==
    \/ (ScopeOrg(scope) = Str("*") /\ ScopeLevel(scope) = Str("*"))
    \/ (ScopeOrg(scope) = Str("*")
            /\ hasRequiredLevel(ScopeLevel(scope), requiredLevel))
    \/ (ScopeOrg(scope) = orgId
            /\ hasRequiredLevel(ScopeLevel(scope), requiredLevel))

\* hasPermission(permissions, orgId, requiredLevel): permissions is a string.
hasPermission(permissions, orgId, requiredLevel) ==
    IF permissions = <<>> THEN FALSE
    ELSE \E i \in 1..Len(Split(permissions, ",")) :
             ScopeGrants(Split(permissions, ",")[i], orgId, requiredLevel)

(***************************************************************************)
(* JSON and responses.                                                     *)
(***************************************************************************)
Has(obj, f) == f \in DOMAIN obj

\* JSON.stringify / JSON.parse of an object none of whose fields is undefined.
JSONstringify(obj) == [json |-> obj]
JSONparse(text) == text.json

\* new Response(body, {status, headers}); the status defaults to 200.
Response(status, body) == [status |-> status, body |-> body]
\* A response that lost the header.
CachedResponse_noHeader(status, body, cache) == [status |-> status, body |-> body]

\* The same with the X-Node-Cache header.
CachedResponse(status, body, cache) ==
    [status |-> status, body |-> body, cache |-> cache]
NoResponse == Response(0, [none |-> TRUE])

Message(m) == JSONstringify([message |-> m])
Text(t) == [text |-> t]

(***************************************************************************)
(* The worker's state.                                                     *)
(***************************************************************************)
VARIABLES
    nodes,          \* GRAPH_DB table nodes: rows, primary key (id, org_id)
    edges,          \* GRAPH_DB table edges: rows, primary key (id, org_id)
    kv,             \* GRAPH_KV: key -> value
    qdrant,         \* the edge collection of the vector index: point id -> payload
    bucket,         \* GRAPH_BUCKET: export key -> export
    cachedOidc,     \* auth.ts: "null", "good", or "bad" (not a discovery document)
    cachedJwks,     \* auth.ts: "null", "good", or "bad" (not a key set)
    lastJwksFetch,  \* auth.ts
    now,            \* Date.now(), in periods longer than ten minutes
    rq,             \* the request being served
    pc,             \* where its processing stands
    params,         \* the params handleRequest passes down
    handler,        \* the handler handleRequest passes down
    hdrs,           \* headers the gate set on the enhanced request
    resp,           \* the response returned by fetch
    trace,          \* what has been done for the request, in order
    served,         \* number of requests answered
    wide,           \* TRUE: requests are drawn from the wide set
    fn,             \* argument and result of a function applied on its own
    life,           \* TRUE: requests are drawn from the lifecycle set, and
                    \* store statements can throw
    log,            \* history: the requests answered so far, each with its
                    \* response and the store it left
    other           \* a second request served concurrently: where it stands

vars == <<nodes, edges, kv, qdrant, bucket, cachedOidc, cachedJwks, lastJwksFetch, now,
          rq, pc, params, handler, hdrs, resp, trace, served, wide, fn,
          life, log, other>>

store == <<nodes, edges, kv, qdrant>>
authCache == <<cachedOidc, cachedJwks, lastJwksFetch>>

(***************************************************************************)
(* Requests: tokens, paths and bodies.                                     *)
(***************************************************************************)
OrgA == Str("a")
OrgB == Str("b")
Orgs == {OrgA, OrgB}

\* "/" followed by the segments joined by "/".
Path(segs) == <<"/">> \o Join(segs, "/")

Scope(org, level) == org \o <<":">> \o level

\* The permissions claim of a token: an array of scopes, one string, or none.
Array(scopes) == [kind |-> "array", val |-> scopes]
StringClaim(s) == [kind |-> "string", val |-> s]
AbsentClaim == [kind |-> "absent", val |-> <<>>]

\* What verification makes of the token: "ok", or the step that throws.
TokenFaults == {"malformed", "unknown_kid", "rejected"}

Jwt(verify, sub, permissions) ==
    [kind |-> "jwt", verify |-> verify, sub |-> Str(sub),
     email |-> Str(sub) \o <<"@", "x">>, permissions |-> permissions]
NoToken == [kind |-> "none"]

\* What a fetch of the discovery document or of the key set comes to:
\* a usable document, a rejection, or JSON that is not the document.  In the
\* lifecycle the identity provider answers.
NetOutcomes == IF life THEN {"ok"} ELSE {"ok", "fail", "garbage"}

Request(method, path, token, body) ==
    [method |-> method, path |-> path, token |-> token, body |-> body]
NoBody == [none |-> TRUE]
NoRequest == Request("", <<>>, NoToken, NoBody)

\* The headers the gate adds to the request it passes on.
Headers(id, email, permissions) ==
    [userId |-> id, email |-> email, permissions |-> permissions]
NoHeaders == [none |-> TRUE]

\* The X-User-ID header a client sends of its own, if it sends one.
ClientHeaders(r) == IF "userId" \in DOMAIN r THEN [userId |-> r.userId] ELSE NoHeaders

\* A gate that leaves a header the client sent as it is.
enhancedRequest_keepsClient(headers, id, email, permissions) ==
    IF "userId" \in DOMAIN headers
    THEN [Headers(id, email, permissions) EXCEPT !.userId = headers.userId]
    ELSE Headers(id, email, permissions)

\* new Request(request) with headers.set of X-User-ID, X-User-Email and
\* X-User-Permissions: set replaces what the client sent.
enhancedRequest(headers, id, email, permissions) == Headers(id, email, permissions)

Methods == {"GET", "POST", "PUT", "PATCH", "DELETE", "OPTIONS"}

\* Ids, types and properties the requests speak of.
N1 == Str("n1")
N2 == Str("n2")
E1 == Str("e1")
P1 == ("k1" :> Str("v1"))
P2 == ("k1" :> Str("v2")) @@ ("k2" :> Str("v1"))
P3 == ("k2" :> Str("v2"))
PV == ("k1" :> Str("v1")) @@ ("vectorize" :> <<"k1">>)
EmptyObject == [k \in {} |-> <<>>]

Read == Str("read")
Write == Str("write")
Audit == Str("audit")
Star == Str("*")

NodeBodies ==
    {[id |-> N1, type |-> Str("t2"), properties |-> P2], [type |-> Str("t1")]}
UpdateBodies == {[properties |-> P3], [type |-> Str("t2")]}
EdgeBodies ==
    {[id |-> E1, from_node |-> N1, to_node |-> N2, properties |-> PV],
     [from_node |-> N1, to_node |-> N1], [id |-> E1, from_node |-> N1],
     [to_node |-> N1]}
EdgeUpdateBodies == {[relationship_type |-> Str("knows")], [properties |-> P3]}

\* An exported node and edge, with or without an org_id of their own.
NodeItem == [id |-> N1, type |-> Str("t3"), properties |-> P1,
             created_at |-> 0, updated_at |-> 0]
EdgeItem == [id |-> E1, from_node |-> N1, to_node |-> N1,
             relationship_type |-> Str("related"), properties |-> EmptyObject,
             created_at |-> 0]
WithOrg(item, org) == ("org_id" :> org) @@ item
\* A node carrying a field the table has no column for.
LabelledItem == ("label" :> Str("x")) @@ NodeItem
ImportBodies ==
    {[nodes |-> <<NodeItem>>, edges |-> <<EdgeItem>>],
     [nodes |-> <<LabelledItem>>, edges |-> <<>>],
     [nodes |-> <<WithOrg(NodeItem, OrgA)>>, edges |-> <<WithOrg(EdgeItem, OrgA)>>],
     [nodes |-> <<WithOrg(NodeItem, OrgB)>>, edges |-> <<WithOrg(EdgeItem, OrgB)>>],
     [nodes |-> <<>>, edges |-> <<>>]}

\* The bodies sent to a handler; full: all of them, otherwise one.
BodiesFor(name, full) ==
    LET all == CASE name = "createNode" -> NodeBodies
                 [] name = "updateNode" -> UpdateBodies
                 [] name = "createEdge" -> EdgeBodies
                 [] name = "updateEdge" -> EdgeUpdateBodies
                 [] name = "importMetadata" -> ImportBodies
                 [] name = "queryGraph" -> {EmptyObject, [node_type |-> Str("t1")]}
                 [] name = "traverseGraph" -> {[start_node |-> N1]}
                 [] OTHER -> {NoBody}
    IN  IF full THEN all ELSE {CHOOSE b \in all : TRUE}

(***************************************************************************)
(* index.ts: fetch and handleRequest.                                      *)
(***************************************************************************)
publicRoutes == {}

\* handleRequest up to the call it makes: Null when it returns undefined.
handleRequest(path, method) ==
    LET match == matchRoute(path)
    IN  IF match # Null /\ RouteConfig(match.pattern, method) # Null
        THEN [handler |-> RouteConfig(match.pattern, method).handler,
              params |-> match.params,
              public |-> path \in publicRoutes]
        ELSE Null

\* The requests with these methods, paths and tokens, each with the bodies
\* its handler reads.
RequestsOver(methods, paths, tokens, full) ==
    UNION {{Request(m, p, t, b) :
                t \in tokens,
                b \in IF handleRequest(p, m) = Null THEN {NoBody}
                      ELSE BodiesFor(handleRequest(p, m).handler, full)} :
           m \in methods, p \in paths}

\* The paths of the route map under an org segment.
RoutePaths(org) ==
    {Path(<<org>> \o rest) :
        rest \in {<<Str("nodes")>>, <<Str("nodes"), N1>>, <<Str("edges")>>,
                  <<Str("edge"), E1>>, <<Str("edge")>>, <<Str("query")>>,
                  <<Str("traverse")>>, <<Str("metadata"), Str("export")>>,
                  <<Str("metadata"), Str("import")>>}}

\* Paths no pattern matches.
StrayPaths(org) ==
    {Path(<<org>> \o rest) :
        rest \in {<<>>, <<Str("zydf")>>, <<Str("metadata")>>,
                  <<Str("nodes"), N1, Str("x")>>}} \cup {<<"/">>}

CuratedTokens ==
    {NoToken,
     Jwt("ok", "ua", Array(<<Scope(OrgA, Read)>>)),
     Jwt("ok", "ua", Array(<<Scope(OrgA, Write)>>)),
     Jwt("ok", "ub", Array(<<Scope(OrgB, Write)>>)),
     Jwt("rejected", "ua", Array(<<Scope(OrgA, Write)>>))}

\* Requests of the main specification: every route of both orgs, with every
\* body, and two requests that match no route.
CuratedRequests ==
    {r \in RequestsOver(Methods, RoutePaths(OrgA) \cup RoutePaths(OrgB),
                        CuratedTokens, TRUE) :
        handleRequest(r.path, r.method) # Null}
    \cup RequestsOver({"GET"}, {Path(<<OrgA, Str("zydf")>>)}, CuratedTokens, TRUE)
    \cup RequestsOver({"PUT"}, {Path(<<OrgA, Str("nodes")>>)}, CuratedTokens, TRUE)

\* The scopes a token of the wide set is made of.
WideScopes ==
    {Scope(OrgA, Read), Scope(OrgA, Write), Scope(OrgB, Write),
     Scope(Star, Read), Scope(Star, Star), Scope(<<>>, Read)}

ScopeLists == {<<>>} \cup {<<x>> : x \in WideScopes}
                \cup {<<x, y>> : x \in WideScopes, y \in WideScopes}

WideTokens ==
    {NoToken, Jwt("ok", "ua", AbsentClaim)}
    \cup {Jwt(f, "ua", Array(<<Scope(OrgA, Write)>>)) : f \in TokenFaults}
    \cup {Jwt("ok", "ua", Array(l)) : l \in ScopeLists}
    \cup {Jwt("ok", "ua", StringClaim(Join(l, ","))) : l \in ScopeLists}

\* The paths of the gate specification: routed or not, under an org segment
\* or under the literal ":orgId".
WidePaths ==
    UNION {RoutePaths(o) \cup StrayPaths(o) : o \in Orgs \cup {<<":", "orgId">>}}

\* Requests of the lifecycle specification: one writer of org a on node n1,
\* edge e1 and the import.
LifeToken == Jwt("ok", "ua", Array(<<Scope(OrgA, Write)>>))
LifePaths ==
    {Path(<<OrgA>> \o rest) :
        rest \in {<<Str("nodes")>>, <<Str("nodes"), N1>>, <<Str("edge"), E1>>,
                  <<Str("edge")>>, <<Str("metadata"), Str("import")>>}}
LifeHandlers ==
    {"createNode", "getNode", "updateNode", "deleteNode", "createEdge", "getEdge",
     "importMetadata"}
LifeRequests ==
    {r \in RequestsOver(Methods \ {"PATCH"}, LifePaths, {LifeToken}, TRUE) :
        /\ handleRequest(r.path, r.method) # Null
        /\ handleRequest(r.path, r.method).handler \in LifeHandlers
        /\ Has(r.body, "nodes") =>
               (r.body.nodes # <<>> /\ ~Has(r.body.nodes[1], "org_id"))
        /\ Has(r.body, "from_node") => Has(r.body, "to_node")
        /\ r.body # NoBody =>
               (handleRequest(r.path, r.method).handler \in {"createNode", "createEdge"}
                    => Has(r.body, "id"))}

RECURSIVE Listings(_)
\* The orders in which the rows of a SELECT without ORDER BY can come.
Listings(rows) ==
    IF rows = {} THEN {<<>>}
    ELSE UNION {{<<x>> \o l : l \in Listings(rows \ {x})} : x \in rows}

\* Requests of the snapshot specification: the export of an org, and the
\* import into an org of a snapshot an export has returned (the bucket keeps
\* the same text), unchanged.
SnapshotTokens ==
    {Jwt("ok", "ua", Array(<<Scope(OrgA, Read), Scope(OrgB, Write)>>)),
     Jwt("ok", "ub", Array(<<Scope(OrgB, Write)>>))}
SnapshotRequests ==
    {Request("GET", Path(<<o, Str("metadata"), Str("export")>>), t, NoBody) :
        o \in Orgs, t \in SnapshotTokens}
    \cup UNION {{Request("POST", Path(<<o, Str("metadata"), Str("import")>>), t,
                         [nodes |-> ns, edges |-> es]) :
                    o \in Orgs, t \in SnapshotTokens,
                    ns \in Listings(JSONparse(bucket[k]).nodes),
                    es \in Listings(JSONparse(bucket[k]).edges)} :
                k \in DOMAIN bucket}

\* Requests of the key specification: orgs and node ids that hold a colon.
\* Org "a" with node "b:c", and org "a:b" with node "c".
OrgAB == <<"a", ":", "b">>
IdBC == <<"b", ":", "c">>
IdC == Str("c")
KeyTokens ==
    {Jwt("ok", "ua", Array(<<Scope(OrgA, Write)>>)),
     Jwt("ok", "uw", Array(<<Scope(Star, Write)>>))}
KeyRequests ==
    {Request("POST", Path(<<o, Str("nodes")>>), t, [id |-> i, type |-> Str("t1")]) :
        o \in {OrgA, OrgAB}, i \in {IdBC, IdC}, t \in KeyTokens}
    \cup {Request("GET", Path(<<o, Str("nodes"), i>>), t, NoBody) :
            o \in {OrgA, OrgAB}, i \in {IdBC, IdC}, t \in KeyTokens}

\* Requests of the audit specification: the writes of org a by the principal
\* ua, each carrying an X-User-ID header of the client's own; the imports
\* with and without audit fields in the items.
Mallory == Str("mallory")
AuditImportBodies ==
    {[nodes |-> <<NodeItem>>, edges |-> <<EdgeItem>>],
     [nodes |-> <<("created_by" :> Mallory) @@ [NodeItem EXCEPT !.id = N2]>>,
      edges |-> <<>>]}
AuditRequests ==
    LET token == Jwt("ok", "ua", Array(<<Scope(OrgA, Write)>>))
        writes == {r \in RequestsOver({"POST", "PUT"}, RoutePaths(OrgA), {token}, TRUE) :
                     /\ handleRequest(r.path, r.method) # Null
                     /\ handleRequest(r.path, r.method).handler \in
                            {"createNode", "updateNode", "createEdge", "updateEdge"}}
        imports == {Request("POST", Path(<<OrgA, Str("metadata"), Str("import")>>),
                            token, b) : b \in AuditImportBodies}
    IN  {("userId" :> Mallory) @@ r : r \in writes \cup imports}

\* The requests a behaviour draws from.  The gate specification (wide) takes
\* every method on every path under every token, with one body each.
Requests ==
    IF wide THEN RequestsOver(Methods, WidePaths, WideTokens, FALSE)
    ELSE IF life THEN LifeRequests
    ELSE IF Has(fn, "op") /\ fn.op = "snapshot" THEN SnapshotRequests
    ELSE IF Has(fn, "op") /\ fn.op = "keys" THEN KeyRequests
    ELSE IF Has(fn, "op") /\ fn.op = "audit" THEN AuditRequests
    ELSE CuratedRequests

\* The requests a behaviour serves.
Budget == IF wide THEN 1 ELSE IF life THEN MaxLife ELSE MaxRequests

\* An entry of the history: the request, the handler it was passed to, its
\* response, the store it left and where the second request stood.  The first entry is the store the
\* worker starts from.
Answered(request, response) ==
    [rq |-> request, handler |-> handler, resp |-> response,
     nodes |-> nodes, edges |-> edges, kv |-> kv, other |-> other.at]

\* The second request is not being served.
Nowhere == [at |-> "nowhere"]

\* fetch: a request arrives and is routed.  No route: 404 'Not Found'.
fetch ==
    /\ pc = "idle"
    /\ served < Budget
    /\ \E r \in Requests, dt \in 0..1 :
        /\ now + dt <= MaxNow
        /\ now' = now + dt
        /\ rq' = r
        /\ trace' = <<>>
        /\ hdrs' = ClientHeaders(r)
        /\ LET h == handleRequest(r.path, r.method)
           IN  IF h = Null
               THEN /\ pc' = "done"
                    /\ params' = NoParams
                    /\ handler' = "none"
                    /\ resp' = Response(404, Text("Not Found"))
               ELSE /\ pc' = IF h.public THEN "handler" ELSE "authenticate"
                    /\ params' = h.params
                    /\ handler' = h.handler
                    /\ resp' = NoResponse
    /\ UNCHANGED <<store, bucket, authCache, served, wide, fn, life, log, other>>

\* fetch returns the response; the worker is ready for the next request.
respond ==
    /\ pc = "done"
    /\ pc' = "idle"
    /\ served' = served + 1
    /\ rq' = NoRequest
    /\ params' = NoParams
    /\ handler' = "none"
    /\ hdrs' = NoHeaders
    /\ resp' = NoResponse
    /\ trace' = <<>>
    /\ log' = IF life THEN Append(log, Answered(rq, resp)) ELSE log
    /\ UNCHANGED <<store, bucket, authCache, now, wide, fn, life, other>>

(***************************************************************************)
(* auth.ts: the gate.                                                      *)
(***************************************************************************)
\* The clock counts periods longer than the ten minutes the key set is kept:
\* now - lastJwksFetch > 10 * 60 * 1000 when a period has gone by.
JwksTtl == 0

Verified == [ev |-> "verified"]
Permitted(orgId, level) == [ev |-> "permitted", org |-> orgId, level |-> level]
Invoked(name) == [ev |-> "handler", name |-> name]

\* payload.permissions ?? [""]
UserPermissions(token) ==
    IF token.permissions.kind = "absent" THEN Array(<< <<>> >>)
    ELSE token.permissions

\* jwtVerify with the check of issuer and audience left out.
jwtVerify_anyIssuer(token, jwks) ==
    jwks = "good" /\ token.verify \in {"ok", "rejected"}

\* decodeProtectedHeader, the key of the header's kid, importJWK and jwtVerify
\* with issuer and audience: TRUE when none of them throws.
jwtVerify(token, jwks) ==
    jwks = "good" /\ token.verify = "ok"

\* authenticate(request, env, logger, next, params)
authenticate ==
    /\ pc = "authenticate"
    /\ IF rq.token = NoToken
       THEN /\ resp' = Response(401, Message("Unauthorized: Missing authentication token"))
            /\ pc' = "done"
            /\ UNCHANGED <<authCache, hdrs, trace>>
       ELSE \E od \in (IF cachedOidc = "null" THEN NetOutcomes ELSE {"ok"}),
               oj \in (IF cachedJwks = "null" \/ now - lastJwksFetch > JwksTtl
                       THEN NetOutcomes ELSE {"ok"}) :
            LET oidcThrew == cachedOidc = "null" /\ od = "fail"
                oidc == IF cachedOidc # "null" \/ oidcThrew THEN cachedOidc
                        ELSE IF od = "ok" THEN "good" ELSE "bad"
                needJwks == /\ ~oidcThrew
                            /\ (cachedJwks = "null" \/ now - lastJwksFetch > JwksTtl)
                jwksThrew == needJwks /\ (oidc = "bad" \/ oj = "fail")
                fetched == needJwks /\ ~jwksThrew
                jwks == IF ~fetched THEN cachedJwks
                        ELSE IF oj = "ok" THEN "good" ELSE "bad"
                verified == ~oidcThrew /\ ~jwksThrew /\ jwtVerify(rq.token, jwks)
                user == [id |-> rq.token.sub, email |-> rq.token.email,
                         permissions |-> UserPermissions(rq.token)]
                match == matchRoute(rq.path)
                routeConfig == RouteConfig(match.pattern, rq.method)
                orgId == IF Has(params, "orgId") THEN params.orgId ELSE <<>>
                joined == Join(user.permissions.val, ",")
            IN  /\ cachedOidc' = oidc
                /\ cachedJwks' = jwks
                /\ lastJwksFetch' = IF fetched THEN now ELSE lastJwksFetch
                /\ IF ~verified
                   THEN /\ resp' = Response(401, Message("Unauthorized: Invalid authentication token"))
                        /\ pc' = "done"
                        /\ UNCHANGED <<hdrs, trace>>
                   ELSE IF match = Null
                   THEN /\ resp' = Response(404, Message("Not Found"))
                        /\ pc' = "done"
                        /\ trace' = trace \o <<Verified>>
                        /\ UNCHANGED hdrs
                   ELSE IF routeConfig = Null
                   THEN /\ resp' = Response(405, Message("Method Not Allowed"))
                        /\ pc' = "done"
                        /\ trace' = trace \o <<Verified>>
                        /\ UNCHANGED hdrs
                   ELSE IF user.permissions.kind = "string"
                   THEN \* user.permissions.join is not a function: caught
                        /\ resp' = Response(401, Message("Unauthorized: Invalid authentication token"))
                        /\ pc' = "done"
                        /\ trace' = trace \o <<Verified>>
                        /\ UNCHANGED hdrs
                   ELSE IF ~hasPermission(joined, orgId, routeConfig.requiredPermission)
                   THEN /\ resp' = Response(403, Message("Forbidden: Insufficient permissions to access this resource"))
                        /\ pc' = "done"
                        /\ trace' = trace \o <<Verified>>
                        /\ UNCHANGED hdrs
                   ELSE /\ hdrs' = enhancedRequest(hdrs, user.id, user.email, joined)
                        /\ pc' = "handler"
                        /\ trace' = trace \o
                              <<Verified, Permitted(orgId, routeConfig.requiredPermission)>>
                        /\ UNCHANGED resp
    /\ UNCHANGED <<store, bucket, now, rq, params, handler, served, wide, fn,
                   life, log, other>>

(***************************************************************************)
(* The durable store and the cache.                                        *)
(***************************************************************************)
Unknown == Str("unknown")
Uuids == {Str("x1"), Str("x2")}     \* values crypto.randomUUID() can return

\* A node as the handlers build it (GraphNode).
GraphNode(id, org, type, properties, createdAt, updatedAt, createdBy, updatedBy) ==
    [id |-> id, org_id |-> org, type |-> type, properties |-> properties,
     created_at |-> createdAt, updated_at |-> updatedAt,
     created_by |-> createdBy, updated_by |-> updatedBy,
     user_agent |-> Unknown, client_ip |-> Unknown]

\* The row of a node or an edge: properties are stored as JSON text.
Row(obj) == [obj EXCEPT !.properties = JSONstringify(obj.properties)]
\* The object the handlers rebuild from a row.
FromRow(row) == [row EXCEPT !.properties = JSONparse(row.properties)]

\* INSERT ... ON CONFLICT(id, org_id) DO UPDATE / INSERT OR REPLACE
\* INSERT without the ON CONFLICT clause, on a table without the key.
Upsert_noConflict(table, row) == table \cup {row}

Upsert(table, row) ==
    {r \in table : ~(r.id = row.id /\ r.org_id = row.org_id)} \cup {row}

\* SELECT * FROM table WHERE id = ? AND org_id = ?
Select(table, id, org) == {r \in table : r.id = id /\ r.org_id = org}

NodeKey(org, id) == <<"node", ":">> \o org \o <<":">> \o id

KVput(key, value) == (key :> value) @@ kv
KVdelete(key) == [k \in DOMAIN kv \ {key} |-> kv[k]]

\* The orgId a handler destructures from params: undefined when not bound.
OrgId == IF Has(params, "orgId") THEN params.orgId ELSE Undefined
\* params?.id || ''
IdParam == IF Has(params, "id") THEN params.id ELSE <<>>

\* request.headers.get('X-User-ID') || fallback
UserId(fallback) ==
    IF Has(hdrs, "userId") /\ hdrs.userId # <<>> THEN hdrs.userId ELSE fallback

\* A handler threw: fetch answers 500 with the error and the request id.
Thrown == Response(500, JSONstringify([error |-> "error", requestId |-> "requestId"]))

\* How many of a handler's n store statements complete: all of them, or, where
\* the stores can throw, the ones before the statement that throws.
Completed(n) == IF life THEN 0..n ELSE {n}

\* A statement on a store (ds, kv), on the embedding provider (ep) or on the
\* vector index (vx) has completed.
Did(what) == [ev |-> "did", what |-> what]

\* The cache written before the row.
NodeWrite_cacheFirst == <<Did("kv"), Did("ds")>>

\* The statements of createNode and of updateNode: the row, then the cache.
NodeWrite == <<Did("ds"), Did("kv")>>

\* statement is among the first k of the statements.
Within(statement, statements, k) ==
    \E i \in 1..k : statements[i] = statement

\* The handler named is called and these statements complete, in this order.
Ran(name, statements) == trace \o <<Invoked(name)>> \o statements

\* What every handler leaves alone.
HandlerFrame ==
    UNCHANGED <<authCache, bucket, now, rq, params, handler, hdrs, served, wide, fn,
                life, log, other>>

(***************************************************************************)
(* graph/node.ts                                                           *)
(***************************************************************************)
DefaultLimit == 100     \* limit when the query string gives none

CeilDiv(a, b) == (a + b - 1) \div b

\* The pagination block of a list response, for page 1 of DefaultLimit.
PaginationMeta(totalRecords) ==
    LET totalPages == CeilDiv(totalRecords, DefaultLimit)
    IN  [page |-> 1, limit |-> DefaultLimit, total_records |-> totalRecords,
         total_pages |-> totalPages, has_next_page |-> 1 < totalPages,
         has_prev_page |-> FALSE]

\* getNode(params.id, env, logger, params): cache first, then the store.
getNode ==
    /\ pc = "handler" /\ handler = "getNode"
    /\ LET key == NodeKey(OrgId, IdParam)
           result == Select(nodes, IdParam, OrgId)
       IN  IF key \in DOMAIN kv
           THEN /\ resp' = CachedResponse(200, kv[key], "HIT")
                /\ UNCHANGED store
           ELSE IF OrgId = Undefined
           THEN resp' = Thrown /\ UNCHANGED store
           ELSE IF result = {}
           THEN /\ resp' = Response(404, Text("Node not found"))
                /\ UNCHANGED store
           ELSE LET node == FromRow(CHOOSE r \in result : TRUE)
                IN  /\ kv' = KVput(key, JSONstringify(node))
                    /\ resp' = CachedResponse(200, JSONstringify(node), "MISS")
                    /\ UNCHANGED <<nodes, edges, qdrant>>
    /\ pc' = "done"
    /\ trace' = Append(trace, Invoked("getNode"))
    /\ HandlerFrame

\* createNode: upsert on (id, org_id), every column overwritten, then cache.
createNode ==
    /\ pc = "handler" /\ handler = "createNode"
    /\ IF rq.body = NoBody \/ OrgId = Undefined
       THEN resp' = Thrown /\ UNCHANGED store /\ trace' = Ran("createNode", <<>>)
       ELSE \E nodeId \in (IF Has(rq.body, "id") THEN {rq.body.id}
                           ELSE {u \in Uuids : \A n \in nodes : n.id # u}) :
            LET userId == UserId(Unknown)
                node == GraphNode(nodeId, OrgId,
                           IF Has(rq.body, "type") THEN rq.body.type
                           ELSE Str("default"),
                           IF Has(rq.body, "properties") THEN rq.body.properties
                           ELSE NoParams,
                           now, now, userId, userId)
            IN  \E k \in Completed(2) :
                /\ nodes' = IF Within(Did("ds"), NodeWrite, k)
                            THEN Upsert(nodes, Row(node)) ELSE nodes
                /\ kv' = IF Within(Did("kv"), NodeWrite, k)
                         THEN KVput(NodeKey(OrgId, nodeId), JSONstringify(node))
                         ELSE kv
                /\ resp' = IF k = 2 THEN Response(200, JSONstringify(node))
                           ELSE Thrown
                /\ trace' = Ran("createNode", SubSeq(NodeWrite, 1, k))
                /\ UNCHANGED <<edges, qdrant>>
    /\ pc' = "done"
    /\ HandlerFrame

\* getNodes without query parameters: the org's rows, first page.
getNodes ==
    /\ pc = "handler" /\ handler = "getNodes"
    /\ IF OrgId = Undefined
       THEN resp' = Thrown
       ELSE LET rows == {r \in nodes : r.org_id = OrgId}
            IN  resp' = Response(200, JSONstringify(
                    [data |-> {FromRow(r) : r \in rows},
                     pagination |-> PaginationMeta(Cardinality(rows))]))
    /\ pc' = "done"
    /\ trace' = Append(trace, Invoked("getNodes"))
    /\ UNCHANGED store
    /\ HandlerFrame

\* A merge in which a's fields win.
Spread_firstWins(a, b) == a @@ b

\* {...a, ...b}: b's fields win.
Spread(a, b) == b @@ a

\* updateNode(params.id, request, ...): merge into the existing row.
updateNode ==
    /\ pc = "handler" /\ handler = "updateNode"
    /\ LET existing == Select(nodes, IdParam, OrgId)
       IN  IF rq.body = NoBody \/ OrgId = Undefined
           THEN resp' = Thrown /\ UNCHANGED store /\ trace' = Ran("updateNode", <<>>)
           ELSE IF existing = {}
           THEN /\ resp' = Response(404, Text("Node not found"))
                /\ trace' = Ran("updateNode", <<>>)
                /\ UNCHANGED store
           ELSE LET old == CHOOSE r \in existing : TRUE
                    updatedNode == GraphNode(IdParam, OrgId,
                        IF Has(rq.body, "type") THEN rq.body.type ELSE old.type,
                        IF Has(rq.body, "properties")
                        THEN Spread(JSONparse(old.properties), rq.body.properties)
                        ELSE JSONparse(old.properties),
                        old.created_at, now, old.created_by, UserId(Unknown))
                IN  \E k \in Completed(2) :
                    /\ nodes' = IF Within(Did("ds"), NodeWrite, k)
                                THEN Upsert(nodes, Row(updatedNode))
                                ELSE nodes
                    /\ kv' = IF Within(Did("kv"), NodeWrite, k)
                             THEN KVput(NodeKey(OrgId, IdParam),
                                        JSONstringify(updatedNode))
                             ELSE kv
                    /\ resp' = IF k = 2 THEN Response(200, JSONstringify(updatedNode))
                               ELSE Thrown
                    /\ trace' = Ran("updateNode", SubSeq(NodeWrite, 1, k))
                    /\ UNCHANGED <<edges, qdrant>>
    /\ pc' = "done"
    /\ HandlerFrame

\* No edge when asked for the edges into a node.
Incoming_none(id, org) == {}

\* The two SELECTs of deleteNode's UNION ALL.
Outgoing(id, org) == {e \in edges : e.from_node = id /\ e.org_id = org}
Incoming(id, org) == {e \in edges : e.to_node = id /\ e.org_id = org}

\* deleteNode(params.id, ...): the node's edges, the row, the cache entry.
deleteNode ==
    /\ pc = "handler" /\ handler = "deleteNode"
    /\ LET existingNode == Select(nodes, IdParam, OrgId)
           outgoing == Outgoing(IdParam, OrgId)
           incoming == Incoming(IdParam, OrgId)
           edgeIds == {e.id : e \in outgoing \cup incoming}
           \* the statements: the edges' delete when there are edges, the
           \* row's delete, the cache entry's delete
           statements == (IF edgeIds # {} THEN <<Did("ds")>> ELSE <<>>)
                             \o <<Did("ds"), Did("kv")>>
           n == Len(statements)
       IN  IF OrgId = Undefined
           THEN resp' = Thrown /\ UNCHANGED store /\ trace' = Ran("deleteNode", <<>>)
           ELSE IF existingNode = {}
           THEN /\ resp' = Response(404, Text("Node not found"))
                /\ trace' = Ran("deleteNode", <<>>)
                /\ UNCHANGED store
           ELSE \E k \in Completed(n) :
                /\ edges' = IF k >= n - 2
                            THEN {e \in edges : ~(e.id \in edgeIds /\ e.org_id = OrgId)}
                            ELSE edges
                /\ nodes' = IF k >= n - 1 THEN nodes \ existingNode ELSE nodes
                /\ kv' = IF k = n THEN KVdelete(NodeKey(OrgId, IdParam)) ELSE kv
                /\ UNCHANGED qdrant
                /\ resp' = IF k = n
                           THEN Response(200, JSONstringify(
                                  [deleted |-> IdParam, org_id |-> OrgId,
                                   deleted_edges |->
                                       Cardinality(outgoing) + Cardinality(incoming),
                                   timestamp |-> now]))
                           ELSE Thrown
                /\ trace' = Ran("deleteNode", SubSeq(statements, 1, k))
    /\ pc' = "done"
    /\ HandlerFrame

(***************************************************************************)
(* graph/edge.ts                                                           *)
(***************************************************************************)
GraphEdge(id, org, from, to, type, properties, createdAt, updatedAt, createdBy, updatedBy) ==
    [id |-> id, org_id |-> org, from_node |-> from, to_node |-> to,
     relationship_type |-> type, properties |-> properties,
     created_at |-> createdAt, updated_at |-> updatedAt,
     created_by |-> createdBy, updated_by |-> updatedBy,
     user_agent |-> Unknown, client_ip |-> Unknown]

\* request.headers.get('X-User-ID') ?? 'system'
EdgeUserId == IF Has(hdrs, "userId") THEN hdrs.userId ELSE Str("system")

\* An answer that takes the edge as created.
CreateEdgeAccepted == Response(200, JSONstringify([error |-> "error"]))

\* The catch of createEdge: 500 with the error alone.
CreateEdgeFailed == Response(500, JSONstringify([error |-> "error"]))

\* An INSERT that is rolled back.
UpsertEdge_rolledBack(row) == edges

\* ON CONFLICT(id, org_id) DO UPDATE of createEdge: created_at and created_by
\* are not in the SET list.
UpsertEdge(row) ==
    LET old == Select(edges, row.id, row.org_id)
    IN  IF old = {} THEN edges \cup {row}
        ELSE LET o == CHOOSE r \in old : TRUE
             IN  (edges \ old) \cup
                 {[row EXCEPT !.created_at = o.created_at,
                              !.created_by = o.created_by]}

\* vectorChunks.length > 0: some key listed under "vectorize" is a property.
HasVectorChunks(properties) ==
    /\ Has(properties, "vectorize")
    /\ \E i \in 1..Len(properties.vectorize) :
           properties.vectorize[i] \in DOMAIN properties

\* The outcome of the embedding call and of the upsert into the index, and,
\* where the stores can throw, of the INSERT before them.
VectorOutcomes ==
    {"ok", "embed_fails", "upsert_fails"} \cup (IF life THEN {"insert_fails"} ELSE {})

createEdge ==
    /\ pc = "handler" /\ handler = "createEdge"
    /\ IF \/ rq.body = NoBody \/ OrgId = Undefined
          \/ ~Has(rq.body, "from_node") \/ ~Has(rq.body, "to_node")
       THEN resp' = CreateEdgeFailed /\ UNCHANGED store
            /\ trace' = Ran("createEdge", <<>>)
       ELSE \E edgeId \in (IF Has(rq.body, "id") THEN {rq.body.id}
                           ELSE {u \in Uuids : \A e \in edges : e.id # u}),
               vo \in VectorOutcomes :
            LET edge == GraphEdge(edgeId, OrgId, rq.body.from_node, rq.body.to_node,
                           IF Has(rq.body, "relationship_type")
                           THEN rq.body.relationship_type ELSE Str("related"),
                           IF Has(rq.body, "properties") THEN rq.body.properties
                           ELSE NoParams,
                           now, now, EdgeUserId, EdgeUserId)
            IN  IF vo = "insert_fails"
                THEN /\ resp' = CreateEdgeFailed
                     /\ trace' = Ran("createEdge", <<>>)
                     /\ UNCHANGED store
                ELSE
                /\ edges' = UpsertEdge(Row(edge))
                /\ UNCHANGED <<nodes, kv>>
                /\ trace' = Ran("createEdge",
                      <<Did("ds")>>
                      \o (IF HasVectorChunks(edge.properties) /\ vo # "embed_fails"
                          THEN <<Did("ep")>> ELSE <<>>)
                      \o (IF HasVectorChunks(edge.properties) /\ vo = "ok"
                          THEN <<Did("vx")>> ELSE <<>>))
                /\ IF ~HasVectorChunks(edge.properties)
                   THEN /\ vo = "ok"
                        /\ resp' = Response(200, JSONstringify(edge))
                        /\ UNCHANGED qdrant
                   ELSE IF vo = "ok"
                   THEN /\ qdrant' = (edgeId :>
                               [edge_id |-> edgeId, from_node |-> edge.from_node,
                                to_node |-> edge.to_node, org_id |-> OrgId,
                                relationship_type |-> edge.relationship_type])
                               @@ qdrant
                        /\ resp' = Response(200, JSONstringify(edge))
                   ELSE /\ resp' = CreateEdgeFailed
                        /\ UNCHANGED qdrant
    /\ pc' = "done"
    /\ HandlerFrame

\* getEdges without query parameters: the org's edges.
getEdges ==
    /\ pc = "handler" /\ handler = "getEdges"
    /\ IF OrgId = Undefined
       THEN resp' = Thrown
       ELSE LET rows == {r \in edges : r.org_id = OrgId}
            IN  resp' = Response(200, JSONstringify(
                    [edges |-> {FromRow(r) : r \in rows},
                     metadata |-> [org_id |-> OrgId, total |-> Cardinality(rows),
                                   limit |-> DefaultLimit]]))
    /\ pc' = "done"
    /\ trace' = Append(trace, Invoked("getEdges"))
    /\ UNCHANGED store
    /\ HandlerFrame

EdgeNotFound(message) ==
    Response(404, JSONstringify([error |-> message, edgeId |-> IdParam, orgId |-> OrgId]))

\* getEdge(params.id, ...)
getEdge ==
    /\ pc = "handler" /\ handler = "getEdge"
    /\ LET result == Select(edges, IdParam, OrgId)
       IN  IF OrgId = Undefined THEN resp' = Thrown
           ELSE IF result = {} THEN resp' = EdgeNotFound("Edge not found")
           ELSE resp' = Response(200, JSONstringify(FromRow(CHOOSE r \in result : TRUE)))
    /\ pc' = "done"
    /\ trace' = Append(trace, Invoked("getEdge"))
    /\ UNCHANGED store
    /\ HandlerFrame

\* updateEdge(params.id, request, ...): PUT and PATCH.
updateEdge ==
    /\ pc = "handler" /\ handler = "updateEdge"
    /\ LET existing == Select(edges, IdParam, OrgId)
       IN  IF OrgId = Undefined
           THEN resp' = Thrown /\ UNCHANGED store
           ELSE IF existing = {}
           THEN /\ resp' = EdgeNotFound("Edge not found or not authorized")
                /\ UNCHANGED store
           ELSE IF rq.body = NoBody
           THEN resp' = Thrown /\ UNCHANGED store
           ELSE LET existingEdge == CHOOSE r \in existing : TRUE
                    updatedEdge == GraphEdge(IdParam, OrgId,
                        existingEdge.from_node, existingEdge.to_node,
                        IF Has(rq.body, "relationship_type")
                        THEN rq.body.relationship_type
                        ELSE existingEdge.relationship_type,
                        IF Has(rq.body, "properties")
                        THEN Spread(JSONparse(existingEdge.properties), rq.body.properties)
                        ELSE JSONparse(existingEdge.properties),
                        existingEdge.created_at, now,
                        existingEdge.created_by, EdgeUserId)
                IN  /\ edges' = Upsert(edges, Row(updatedEdge))
                    /\ resp' = Response(200, JSONstringify(updatedEdge))
                    /\ UNCHANGED <<nodes, kv, qdrant>>
    /\ pc' = "done"
    /\ trace' = Append(trace, Invoked("updateEdge"))
    /\ HandlerFrame

\* deleteEdge(params.id, ...)
deleteEdge ==
    /\ pc = "handler" /\ handler = "deleteEdge"
    /\ LET edgeDetails == Select(edges, IdParam, OrgId)
       IN  IF OrgId = Undefined
           THEN resp' = Thrown /\ UNCHANGED store
           ELSE IF edgeDetails = {}
           THEN /\ resp' = EdgeNotFound("Edge not found or not authorized")
                /\ UNCHANGED store
           ELSE /\ edges' = edges \ edgeDetails
                /\ resp' = Response(200, JSONstringify(
                       [success |-> TRUE, message |-> "Edge deleted successfully",
                        edgeId |-> IdParam, orgId |-> OrgId]))
                /\ UNCHANGED <<nodes, kv, qdrant>>
    /\ pc' = "done"
    /\ trace' = Append(trace, Invoked("deleteEdge"))
    /\ HandlerFrame

(***************************************************************************)
(* graph/ops.ts: import and export.                                        *)
(***************************************************************************)
\* item[f] || fallback
Or(item, f, fallback) ==
    IF Has(item, f) /\ item[f] # <<>> THEN item[f] ELSE fallback

NodeColumns == {"id", "org_id", "type", "properties", "created_at", "updated_at",
                "created_by", "updated_by", "user_agent", "client_ip"}
EdgeColumns == (NodeColumns \ {"type"}) \cup
               {"from_node", "to_node", "relationship_type"}

\* bind(...) accepts the values: none of the columns is undefined.
Bindable(obj, columns) ==
    /\ \A f \in columns : Has(obj, f)
    /\ obj.org_id # Undefined

\* The values bound to the INSERT: the columns, properties as JSON text.
Bound(obj, columns) ==
    [f \in columns |-> IF f = "properties" THEN JSONstringify(obj.properties)
                       ELSE obj[f]]

TypeKey(org, type) == <<"type", ":">> \o org \o <<":">> \o type

\* if (!nodeIds.includes(node.id)) nodeIds.push(node.id)
pushAlways(nodeIds, id) == Append(nodeIds, id)
pushUnlessIncluded(nodeIds, id) ==
    IF \E i \in 1..Len(nodeIds) : nodeIds[i] = id THEN nodeIds
    ELSE Append(nodeIds, id)

\* The body of the loop over importData.nodes, on the state st so far.
ImportNode(item, st, orgId, userId) ==
    LET node == ("org_id" :> Or(item, "org_id", orgId)) @@
                ("created_by" :> Or(item, "created_by", userId)) @@
                ("updated_by" :> Or(item, "updated_by", userId)) @@
                ("user_agent" :> Or(item, "user_agent", Unknown)) @@
                ("client_ip" :> Or(item, "client_ip", Unknown)) @@ item
        typeKey == TypeKey(node.org_id, node.type)
        cached == (NodeKey(node.org_id, node.id) :> JSONstringify(node)) @@ st.kv
        nodeIds == IF typeKey \in DOMAIN cached THEN JSONparse(cached[typeKey])
                   ELSE <<>>
    IN  IF ~st.ok THEN st
        ELSE IF ~Bindable(node, NodeColumns) THEN [st EXCEPT !.ok = FALSE]
        ELSE [st EXCEPT
                 !.nodes = {r \in @ : ~(r.id = node.id /\ r.org_id = node.org_id)}
                              \cup {Bound(node, NodeColumns)},
                 !.kv = (typeKey :> JSONstringify(pushUnlessIncluded(nodeIds, node.id)))
                            @@ cached]

\* The body of the loop over importData.edges.
ImportEdge(item, st, orgId, userId) ==
    LET dated == IF Has(item, "updated_at") \/ ~Has(item, "created_at") THEN item
                 ELSE ("updated_at" :> item.created_at) @@ item
        edge == ("org_id" :> Or(item, "org_id", orgId)) @@
                ("created_by" :> Or(item, "created_by", userId)) @@
                ("updated_by" :> Or(item, "updated_by", userId)) @@
                ("user_agent" :> Or(item, "user_agent", Unknown)) @@
                ("client_ip" :> Or(item, "client_ip", Unknown)) @@ dated
    IN  IF ~st.ok THEN st
        ELSE IF ~Bindable(edge, EdgeColumns) THEN [st EXCEPT !.ok = FALSE]
        ELSE [st EXCEPT
                 !.edges = {r \in @ : ~(r.id = edge.id /\ r.org_id = edge.org_id)}
                              \cup {Bound(edge, EdgeColumns)}]

RECURSIVE ImportNodes(_, _, _, _)
ImportNodes(items, st, orgId, userId) ==
    IF items = <<>> THEN st
    ELSE ImportNodes(Tail(items), ImportNode(Head(items), st, orgId, userId),
                     orgId, userId)

RECURSIVE ImportEdges(_, _, _, _)
ImportEdges(items, st, orgId, userId) ==
    IF items = <<>> THEN st
    ELSE ImportEdges(Tail(items), ImportEdge(Head(items), st, orgId, userId),
                     orgId, userId)

\* importMetadata: every node and edge of the body, in order; a throw leaves
\* what was written before it.
importMetadata ==
    /\ pc = "handler" /\ handler = "importMetadata"
    /\ IF rq.body = NoBody \/ ~Has(rq.body, "nodes") \/ ~Has(rq.body, "edges")
       THEN resp' = Thrown /\ UNCHANGED store
       ELSE LET userId == UserId(Str("system"))
                st0 == [nodes |-> nodes, edges |-> edges, kv |-> kv, ok |-> TRUE]
                st1 == ImportNodes(rq.body.nodes, st0, OrgId, userId)
                st2 == ImportEdges(rq.body.edges, st1, OrgId, userId)
            IN  /\ nodes' = st2.nodes
                /\ edges' = st2.edges
                /\ kv' = st2.kv
                /\ UNCHANGED qdrant
                /\ resp' = IF ~st2.ok THEN Thrown
                           ELSE Response(200, JSONstringify(
                                [org_id |-> OrgId,
                                 imported_nodes |-> Len(rq.body.nodes),
                                 imported_edges |-> Len(rq.body.edges),
                                 timestamp |-> now, imported_by |-> userId]))
    /\ pc' = "done"
    /\ trace' = Append(trace, Invoked("importMetadata"))
    /\ HandlerFrame

ExportKey(org, timestamp) ==
    <<"export", "-">> \o org \o <<"-", ToString(timestamp), ".json">>

\* exportMetadata(env, logger, params): the org's rows, kept in the bucket.
exportMetadata ==
    /\ pc = "handler" /\ handler = "exportMetadata"
    /\ IF OrgId = Undefined
       THEN resp' = Thrown /\ UNCHANGED bucket
       ELSE LET exportData ==
                    [timestamp |-> now, version |-> "1.0", org_id |-> OrgId,
                     nodes |-> {FromRow(r) : r \in {n \in nodes : n.org_id = OrgId}},
                     edges |-> {FromRow(r) : r \in {e \in edges : e.org_id = OrgId}}]
            IN  /\ bucket' = (ExportKey(OrgId, now) :> JSONstringify(exportData))
                                 @@ bucket
                /\ resp' = Response(200, JSONstringify(exportData))
    /\ pc' = "done"
    /\ trace' = Append(trace, Invoked("exportMetadata"))
    /\ UNCHANGED <<store, authCache, now, rq, params, handler, hdrs, served, wide, fn,
                   life, log, other>>

(***************************************************************************)
(* graph/traversals.ts                                                     *)
(***************************************************************************)
\* queryGraph: the org's nodes LEFT JOIN the org's edges that touch them,
\* filtered by the body's node_type and relationship_type.
queryGraph ==
    /\ pc = "handler" /\ handler = "queryGraph"
    /\ IF rq.body = NoBody \/ OrgId = Undefined
       THEN resp' = Thrown
       ELSE LET Touches(e, n) == e.org_id = OrgId /\ (n.id = e.from_node \/ n.id = e.to_node)
                EdgeOk(e) == Has(rq.body, "relationship_type") =>
                                 e.relationship_type = rq.body.relationship_type
                NodeOk(n) == /\ n.org_id = OrgId
                             /\ Has(rq.body, "node_type") => n.type = rq.body.node_type
                             /\ Has(rq.body, "relationship_type") =>
                                    \E e \in edges : Touches(e, n) /\ EdgeOk(e)
                ns == {n \in nodes : NodeOk(n)}
                es == {e \in edges : EdgeOk(e) /\ \E n \in ns : Touches(e, n)}
            IN  resp' = Response(200, JSONstringify(
                    [nodes |-> {FromRow(n) : n \in ns},
                     edges |-> {FromRow(e) : e \in es},
                     metadata |-> [total_nodes |-> Cardinality(ns),
                                   total_edges |-> Cardinality(es),
                                   org_id |-> OrgId]]))
    /\ pc' = "done"
    /\ trace' = Append(trace, Invoked("queryGraph"))
    /\ UNCHANGED store
    /\ HandlerFrame

DefaultMaxDepth == 3    \* body.max_depth ?? 3

AdjKey(org, id) == <<"adj", ":", "out", ":">> \o org \o <<":">> \o id

RECURSIVE traverseNode(_, _, _, _, _, _)
RECURSIVE traverseAll(_, _, _, _, _, _)
\* traverseNode on the result st so far; the adjacent nodes are taken in the
\* order of the adjacency list.  A lookup that throws is logged and ends the
\* visit of the node.
traverseNode(nodeId, currentDepth, maxDepth, st, currentPath, orgId) ==
    IF currentDepth >= maxDepth \/ nodeId \in st.visited
    THEN IF Len(currentPath) > 1
         THEN [st EXCEPT !.paths = Append(@, currentPath)]
         ELSE st
    ELSE LET seen == [st EXCEPT !.visited = @ \cup {nodeId}]
             found == Select(nodes, nodeId, orgId)
             withNode == [seen EXCEPT !.nodes = @ \cup {FromRow(r) : r \in found}]
             key == AdjKey(orgId, nodeId)
             adjacentNodes == IF key \in DOMAIN kv THEN JSONparse(kv[key]) ELSE <<>>
             edgeResults ==
                 {e \in edges : /\ e.from_node = nodeId /\ e.org_id = orgId
                                /\ \E i \in 1..Len(adjacentNodes) :
                                       /\ e.to_node = adjacentNodes[i].node
                                       /\ e.relationship_type = adjacentNodes[i].type}
             withEdges == [withNode EXCEPT
                              !.edges = @ \cup {FromRow(e) : e \in edgeResults}]
         IN  IF orgId = Undefined THEN seen
             ELSE traverseAll(adjacentNodes, currentDepth + 1, maxDepth, withEdges,
                              currentPath, orgId)

traverseAll(adjacentNodes, depth, maxDepth, st, currentPath, orgId) ==
    IF adjacentNodes = <<>> THEN st
    ELSE traverseAll(Tail(adjacentNodes), depth, maxDepth,
                     traverseNode(Head(adjacentNodes).node, depth, maxDepth, st,
                                  Append(currentPath, Head(adjacentNodes).node), orgId),
                     currentPath, orgId)

\* traverseGraph: from body.start_node, to the default depth.
traverseGraph ==
    /\ pc = "handler" /\ handler = "traverseGraph"
    /\ IF rq.body = NoBody
       THEN resp' = Thrown
       ELSE LET start == IF Has(rq.body, "start_node") THEN rq.body.start_node
                         ELSE Undefined
                result == traverseNode(start, 0, DefaultMaxDepth,
                              [visited |-> {}, nodes |-> {}, edges |-> {}, paths |-> <<>>],
                              <<start>>, IF start = Undefined THEN Undefined ELSE OrgId)
            IN  resp' = Response(200, JSONstringify(
                    [nodes |-> result.nodes, edges |-> result.edges,
                     paths |-> result.paths,
                     metadata |-> [org_id |-> OrgId, start_node |-> start,
                                   max_depth |-> DefaultMaxDepth,
                                   total_nodes |-> Cardinality(result.nodes),
                                   total_edges |-> Cardinality(result.edges),
                                   total_paths |-> Len(result.paths)]]))
    /\ pc' = "done"
    /\ trace' = Append(trace, Invoked("traverseGraph"))
    /\ UNCHANGED store
    /\ HandlerFrame

(***************************************************************************)
(* The specifications.                                                     *)
(***************************************************************************)
NoFn == [none |-> TRUE]

\* Stores the worker can have built: two orgs holding a node of the same id,
\* org b alone holding edge e1; the node of org a cached or not.
NodeA == GraphNode(N1, OrgA, Str("t1"), P1, 0, 0, Str("ua"), Str("ua"))
NodeB == GraphNode(N1, OrgB, Str("t1"), P1, 0, 0, Str("ub"), Str("ub"))
EdgeB == GraphEdge(E1, OrgB, N1, N1, Str("related"), EmptyObject, 0, 0,
                   Str("ub"), Str("ub"))
EmptyMap == [k \in {} |-> NoFn]

CachedStore ==
    [nodes |-> {Row(NodeA), Row(NodeB)}, edges |-> {Row(EdgeB)},
     kv |-> (NodeKey(OrgA, N1) :> JSONstringify(NodeA)) @@
            (NodeKey(OrgB, N1) :> JSONstringify(NodeB))]
UncachedStore ==
    [nodes |-> {Row(NodeA), Row(NodeB)}, edges |-> {Row(EdgeB)},
     kv |-> (NodeKey(OrgB, N1) :> JSONstringify(NodeB))]
InitStores == {CachedStore, UncachedStore}

InitState(stores, w, f, l) ==
    /\ \E st \in stores : nodes = st.nodes /\ edges = st.edges /\ kv = st.kv
    /\ qdrant = EmptyMap
    /\ bucket = EmptyMap
    /\ cachedOidc = "null"
    /\ cachedJwks = "null"
    /\ lastJwksFetch = 0
    /\ now = 0
    /\ rq = NoRequest
    /\ pc = "idle"
    /\ params = NoParams
    /\ handler = "none"
    /\ hdrs = NoHeaders
    /\ resp = NoResponse
    /\ trace = <<>>
    /\ served = 0
    /\ wide = w
    /\ fn = f
    /\ life = l
    /\ other = Nowhere
    /\ log = IF l THEN <<Answered(NoRequest, NoResponse)>> ELSE <<>>

InitWorker(stores, w, f) == InitState(stores, w, f, FALSE)

Init == InitWorker(InitStores, FALSE, NoFn)

Next ==
    \/ fetch
    \/ authenticate
    \/ getNode
    \/ createNode
    \/ getNodes
    \/ updateNode
    \/ deleteNode
    \/ createEdge
    \/ getEdges
    \/ getEdge
    \/ updateEdge
    \/ deleteEdge
    \/ importMetadata
    \/ exportMetadata
    \/ queryGraph
    \/ traverseGraph
    \/ respond

Spec == Init /\ [][Next]_vars

(***************************************************************************)
(* The lifecycle of a node: requests of one writer served one after the    *)
(* other, store statements that can throw, and a GET of the node served    *)
(* concurrently by another isolate.                                        *)
(***************************************************************************)
NodeA2 == GraphNode(N2, OrgA, Str("t1"), P1, 0, 0, Str("ua"), Str("ua"))
EdgeA == GraphEdge(E1, OrgA, N2, N1, Str("related"), EmptyObject, 0, 0,
                   Str("ua"), Str("ua"))

\* Org a holds n1 (cached or not), n2 and edge e1 from n2 to n1, or n2 alone.
LifeStores ==
    {[nodes |-> {Row(NodeA), Row(NodeA2), Row(NodeB)},
      edges |-> {Row(EdgeA), Row(EdgeB)},
      kv |-> (NodeKey(OrgA, N1) :> JSONstringify(NodeA))],
     [nodes |-> {Row(NodeA), Row(NodeA2), Row(NodeB)},
      edges |-> {Row(EdgeA), Row(EdgeB)},
      kv |-> EmptyMap],
     [nodes |-> {Row(NodeA2), Row(NodeB)},
      edges |-> {Row(EdgeB)},
      kv |-> EmptyMap]}

InitLife == InitState(LifeStores, FALSE, NoFn, TRUE)

\* The steps of the other isolate are taken between two requests of this
\* one: fetch, authenticate and respond neither read nor write the stores, so
\* where a step falls among them makes no difference.
\* getNode of /a/nodes/n1 in another isolate, up to its read of the row: the
\* cache held nothing under the key and the row is there.  (On a cache hit
\* and on a missing row it answers and writes nothing.)
otherLookup ==
    /\ life /\ other = Nowhere /\ pc = "idle"
    /\ LET key == NodeKey(OrgA, N1)
           result == Select(nodes, N1, OrgA)
       IN  /\ key \notin DOMAIN kv
           /\ result # {}
           /\ other' = [at |-> "found", key |-> key,
                        node |-> FromRow(CHOOSE r \in result : TRUE)]
    /\ UNCHANGED <<store, bucket, authCache, now, rq, pc, params, handler, hdrs, resp,
                   trace, served, wide, fn, life, log>>

\* The same getNode, from its GRAPH_KV.put on.
otherBackfill ==
    /\ life /\ other.at = "found" /\ pc = "idle"
    /\ kv' = KVput(other.key, JSONstringify(other.node))
    /\ other' = [at |-> "answered"]
    /\ UNCHANGED <<nodes, edges, qdrant, bucket, authCache, now, rq, pc, params,
                   handler, hdrs, resp, trace, served, wide, fn, life, log>>

NextLife ==
    \/ fetch
    \/ authenticate
    \/ getNode
    \/ createNode
    \/ updateNode
    \/ deleteNode
    \/ createEdge
    \/ getEdge
    \/ importMetadata
    \/ respond
    \/ otherLookup
    \/ otherBackfill

SpecLife == InitLife /\ [][NextLife]_vars

\* The snapshot specification: exports, and imports of what they returned.
\* Org a holds two nodes and an edge, or one node; org b is fresh, or holds
\* a node and an edge of its own.
SnapshotStores ==
    {[nodes |-> {Row(NodeA), Row(NodeA2)}, edges |-> {Row(EdgeA)},
      kv |-> (NodeKey(OrgA, N1) :> JSONstringify(NodeA))],
     [nodes |-> {Row(NodeA2)}, edges |-> {}, kv |-> EmptyMap],
     CachedStore}

InitSnapshot == InitWorker(SnapshotStores, FALSE, [op |-> "snapshot"])

NextSnapshot ==
    \/ fetch
    \/ authenticate
    \/ exportMetadata
    \/ importMetadata
    \/ respond

SpecSnapshot == InitSnapshot /\ [][NextSnapshot]_vars

\* The key specification: nodes created and read under the orgs and ids that
\* hold a colon.
InitKeys == InitWorker({CachedStore}, FALSE, [op |-> "keys"])

NextKeys ==
    \/ fetch
    \/ authenticate
    \/ createNode
    \/ getNode
    \/ respond

SpecKeys == InitKeys /\ [][NextKeys]_vars

\* The audit specification: writes whose requests carry a client's own
\* X-User-ID header.
InitAudit == InitWorker({CachedStore}, FALSE, [op |-> "audit"])

NextAudit ==
    \/ fetch
    \/ authenticate
    \/ createNode
    \/ updateNode
    \/ createEdge
    \/ updateEdge
    \/ importMetadata
    \/ respond

SpecAudit == InitAudit /\ [][NextAudit]_vars

\* The gate specification: one request out of the wide set.
InitGate == InitWorker({CachedStore}, TRUE, NoFn)

SpecGate == InitGate /\ [][Next]_vars

(***************************************************************************)
(* matchRoute and hasPermission applied on their own.                      *)
(***************************************************************************)
\* The segments a path is made of.
Segments ==
    {Str("a"), <<":", "orgId">>, Str("nodes"), Str("edge"), Str("n1"), <<>>,
     Str("metadata"), Str("export"), Str("invalid"), Str("path")}

RECURSIVE SegLists(_)
\* The lists of at most n segments.
SegLists(n) ==
    IF n = 0 THEN {<<>>}
    ELSE SegLists(n - 1) \cup
         {Append(l, x) : l \in {k \in SegLists(n - 1) : Len(k) = n - 1}, x \in Segments}

\* URL pathnames of at most MaxSegs segments ("/" has none).
Pathnames == {Path(l) : l \in SegLists(MaxSegs)}

InitRoute ==
    \E p \in Pathnames :
        InitWorker({CachedStore}, FALSE,
                   [op |-> "matchRoute", path |-> p, applied |-> FALSE, result |-> Null])

applyMatchRoute ==
    /\ fn.op = "matchRoute" /\ ~fn.applied
    /\ fn' = [fn EXCEPT !.applied = TRUE, !.result = matchRoute(fn.path)]
    /\ UNCHANGED <<store, bucket, authCache, now, rq, pc, params, handler, hdrs,
                   resp, trace, served, wide, life, log, other>>

SpecRoute == InitRoute /\ [][applyMatchRoute]_vars

\* The scopes a permissions string is joined from: (org, level) pairs.
ScopeOrgs == {OrgA, OrgB, Star, <<>>}
ScopeLevels == {Read, Write, Audit, Star, Str("admin")}
ScopePairs == {<<o, l>> : o \in ScopeOrgs, l \in ScopeLevels}

RECURSIVE PairLists(_)
\* The lists of at most n scopes.
PairLists(n) ==
    IF n = 0 THEN {<<>>}
    ELSE PairLists(n - 1) \cup
         {Append(l, x) : l \in {k \in PairLists(n - 1) : Len(k) = n - 1}, x \in ScopePairs}

\* "org:level,org:level"
PermissionString(pairs) ==
    Join([i \in 1..Len(pairs) |-> Scope(pairs[i][1], pairs[i][2])], ",")

InitPerm ==
    \E pairs \in PairLists(MaxScopes), o \in {OrgA, OrgB, <<>>},
       l \in {Read, Write, Audit} :
        InitWorker({CachedStore}, FALSE,
                   [op |-> "hasPermission", scopes |-> pairs, orgId |-> o,
                    requiredLevel |-> l, applied |-> FALSE, result |-> FALSE])

applyHasPermission ==
    /\ fn.op = "hasPermission" /\ ~fn.applied
    /\ fn' = [fn EXCEPT !.applied = TRUE,
                        !.result = hasPermission(PermissionString(fn.scopes),
                                                 fn.orgId, fn.requiredLevel)]
    /\ UNCHANGED <<store, bucket, authCache, now, rq, pc, params, handler, hdrs,
                   resp, trace, served, wide, life, log, other>>

SpecPerm == InitPerm /\ [][applyHasPermission]_vars

(***************************************************************************)
(* traverseNode, one continuation at a time: every await of the function   *)
(* is a place where the calls running in parallel take turns.  What runs   *)
(* between two awaits runs without interruption (one thread).  The state   *)
(* of the traversal is in fn: the body, the visited set and the result the *)
(* calls share, and the calls that are waiting for a lookup.               *)
(***************************************************************************)
N3 == Str("n3")
E2 == Str("e2")
E3 == Str("e3")
E4 == Str("e4")
Related == Str("related")
Knows == Str("knows")

AdjInKey(org, id) == <<"adj", ":", "in", ":">> \o org \o <<":">> \o id

\* updateAdjacencyList on the cache kvs: one entry more at the end of the
\* outgoing list of fromNode and of the incoming list of toNode.
updateAdjacencyList(kvs, fromNode, toNode, relationshipType, orgId) ==
    LET outgoingKey == AdjKey(orgId, fromNode)
        outgoingList == IF outgoingKey \in DOMAIN kvs
                        THEN JSONparse(kvs[outgoingKey]) ELSE <<>>
        withOutgoing ==
            (outgoingKey :> JSONstringify(
                 Append(outgoingList, [node |-> toNode, type |-> relationshipType])))
            @@ kvs
        incomingKey == AdjInKey(orgId, toNode)
        incomingList == IF incomingKey \in DOMAIN withOutgoing
                        THEN JSONparse(withOutgoing[incomingKey]) ELSE <<>>
    IN  (incomingKey :> JSONstringify(
             Append(incomingList, [node |-> fromNode, type |-> relationshipType])))
        @@ withOutgoing

\* An edge of org a, and a node of org a.
EdgeOf(id, from, to, type) ==
    GraphEdge(id, OrgA, from, to, type, EmptyObject, 0, 0, Str("ua"), Str("ua"))
NodeOf(id) == GraphNode(id, OrgA, Str("t1"), P1, 0, 0, Str("ua"), Str("ua"))

RECURSIVE Listed(_, _)
\* The cache after the edges of the list were created, in the list's order, by
\* a createEdge that keeps the adjacency lists (the cache outlives a
\* deployment).
Listed(kvs, created) ==
    IF created = <<>> THEN kvs
    ELSE Listed(updateAdjacencyList(kvs, Head(created).from_node, Head(created).to_node,
                                    Head(created).relationship_type, Head(created).org_id),
                Tail(created))

\* Stores holding the nodes, the edges of the list but for those deleted
\* since, and the adjacency lists of the edges of the list.
GraphStore(ids, created, deleted) ==
    [nodes |-> {Row(NodeOf(id)) : id \in ids},
     edges |-> {Row(created[i]) : i \in 1..Len(created)} \ {Row(e) : e \in deleted},
     kv |-> Listed(EmptyMap, created)]

\* A diamond closed into a cycle: n1 -> n2, n1 -> n3, n2 -> n3, n3 -> n1.
Diamond ==
    <<EdgeOf(E1, N1, N2, Related), EdgeOf(E2, N1, N3, Knows),
      EdgeOf(E3, N2, N3, Related), EdgeOf(E4, N3, N1, Related)>>
\* A self-loop, and two edges of the same ends and type: n1 -> n1, n1 -> n2
\* twice, n2 -> n1.
Loops ==
    <<EdgeOf(E1, N1, N1, Related), EdgeOf(E2, N1, N2, Related),
      EdgeOf(E3, N1, N2, Related), EdgeOf(E4, N2, N1, Knows)>>

TraverseStores ==
    {GraphStore({N1, N2, N3}, Diamond, {}),
     GraphStore({N1, N2}, Diamond, {EdgeOf(E3, N2, N3, Related)}),
     GraphStore({N1, N2}, Loops, {})}

MaxDepth == 3       \* largest max_depth of a traversal's body

TraverseBodies ==
    {[start_node |-> s] : s \in {N1, N2}} \cup
    {[start_node |-> N1, max_depth |-> d] : d \in 0..MaxDepth} \cup
    {[start_node |-> N1, max_depth |-> MaxDepth, relationship_types |-> <<Related>>]}

\* currentDepth >= maxDepth || visited.has(nodeId)
Stops_atDepthOnly(currentDepth, maxDepth, visited, nodeId) == currentDepth >= maxDepth
Stops_pastDepth(currentDepth, maxDepth, visited, nodeId) ==
    currentDepth > maxDepth \/ nodeId \in visited
Stops(currentDepth, maxDepth, visited, nodeId) ==
    currentDepth >= maxDepth \/ nodeId \in visited

\* A call on a visited node that waits for the visit in progress.
enterNode_awaitsVisit(t, nodeId, currentDepth, maxDepth, currentPath) ==
    [t EXCEPT !.visited = @ \cup {nodeId},
              !.calls = Append(@, [nodeId |-> nodeId, currentDepth |-> currentDepth,
                                   currentPath |-> currentPath,
                                   at |-> IF Stops(currentDepth, maxDepth, t.visited, nodeId)
                                          THEN "visit" ELSE "node",
                                   adjacentNodes |-> <<>>])]

\* traverseNode from its call to its first await: the path is pushed and the
\* call returns, or the node is marked visited and the call waits for the
\* node's row.  t holds the visited set, the result and the waiting calls.
enterNode(t, nodeId, currentDepth, maxDepth, currentPath) ==
    IF Stops(currentDepth, maxDepth, t.visited, nodeId)
    THEN IF Len(currentPath) > 1
         THEN [t EXCEPT !.result.paths = Append(@, currentPath)]
         ELSE t
    ELSE [t EXCEPT !.visited = @ \cup {nodeId},
                   !.calls = Append(@, [nodeId |-> nodeId, currentDepth |-> currentDepth,
                                        currentPath |-> currentPath, at |-> "node",
                                        adjacentNodes |-> <<>>])]

RECURSIVE enterAll(_, _, _, _, _)
\* edgeResults.map(... => traverseNode(...)): the calls are made in the order
\* of the list, each running to its first await.
enterAll(t, adjacentNodes, depth, maxDepth, currentPath) ==
    IF adjacentNodes = <<>> THEN t
    ELSE enterAll(enterNode(t, Head(adjacentNodes).node, depth, maxDepth,
                            Append(currentPath, Head(adjacentNodes).node)),
                  Tail(adjacentNodes), depth, maxDepth, currentPath)

RECURSIVE Allowed(_, _)
\* The entries of the adjacency list the relationship filter lets through.
Allowed(adjacentNodes, body) ==
    IF adjacentNodes = <<>> THEN <<>>
    ELSE IF /\ Has(body, "relationship_types")
            /\ \A i \in 1..Len(body.relationship_types) :
                   body.relationship_types[i] # Head(adjacentNodes).type
         THEN Allowed(Tail(adjacentNodes), body)
         ELSE <<Head(adjacentNodes)>> \o Allowed(Tail(adjacentNodes), body)

RECURSIVE EdgeResults(_, _, _)
\* The edges the lookups of the entries can find, in the entries' order: per
\* entry the first row of the ends and the type, whichever row that is; none
\* when there is no such row.
EdgeResults(nodeId, adjacentNodes, orgId) ==
    IF adjacentNodes = <<>> THEN {<<>>}
    ELSE LET rows == {e \in edges : /\ e.from_node = nodeId
                                    /\ e.to_node = Head(adjacentNodes).node
                                    /\ e.relationship_type = Head(adjacentNodes).type
                                    /\ e.org_id = orgId}
             rest == EdgeResults(nodeId, Tail(adjacentNodes), orgId)
         IN  IF rows = {} THEN rest
             ELSE {<<FromRow(e)>> \o r : e \in rows, r \in rest}

Without(calls, i) == [j \in 1..(Len(calls) - 1) |-> IF j < i THEN calls[j] ELSE calls[j + 1]]

TraverseMaxDepth == IF Has(fn.body, "max_depth") THEN fn.body.max_depth ELSE DefaultMaxDepth

Traversing == Has(fn, "op") /\ fn.op = "traverseGraph"

TraverseFrame ==
    UNCHANGED <<store, bucket, authCache, now, rq, pc, params, handler, hdrs,
                resp, trace, served, wide, life, log, other>>

InitTraverse ==
    \E body \in TraverseBodies :
        InitWorker(TraverseStores, FALSE,
                   [op |-> "traverseGraph", body |-> body, orgId |-> OrgA,
                    at |-> "called", visited |-> {},
                    result |-> [nodes |-> <<>>, edges |-> <<>>, paths |-> <<>>],
                    calls |-> <<>>, response |-> NoResponse])

\* traverseGraph calls traverseNode on the start node.
callTraverseNode ==
    /\ Traversing /\ fn.at = "called"
    /\ fn' = [enterNode(fn, fn.body.start_node, 0, TraverseMaxDepth,
                        <<fn.body.start_node>>) EXCEPT !.at = "running"]
    /\ TraverseFrame

\* The node's row has come: it is pushed when there is one, and the call waits
\* for the adjacency list.
nodeLookup ==
    /\ Traversing /\ fn.at = "running"
    /\ \E i \in 1..Len(fn.calls) :
        /\ fn.calls[i].at = "node"
        /\ LET found == Select(nodes, fn.calls[i].nodeId, fn.orgId)
               pushed == IF found = {} THEN fn.result.nodes
                         ELSE Append(fn.result.nodes, FromRow(CHOOSE r \in found : TRUE))
           IN  fn' = [fn EXCEPT !.result.nodes = pushed, !.calls[i].at = "adjacency"]
    /\ TraverseFrame

\* The adjacency list has come: without one the call returns, with one the
\* call waits for the lookups of the edges the filter lets through.
adjacencyLookup ==
    /\ Traversing /\ fn.at = "running"
    /\ \E i \in 1..Len(fn.calls) :
        /\ fn.calls[i].at = "adjacency"
        /\ LET key == AdjKey(fn.orgId, fn.calls[i].nodeId)
           IN  IF key \in DOMAIN kv
               THEN fn' = [fn EXCEPT !.calls[i].at = "edges",
                                     !.calls[i].adjacentNodes =
                                         Allowed(JSONparse(kv[key]), fn.body)]
               ELSE fn' = [fn EXCEPT !.calls = Without(@, i)]
    /\ TraverseFrame

\* The edges have come: they are pushed, and traverseNode is called on the
\* node of every entry; each of the calls runs to its first await, and the
\* call that made them only waits for them from here on.
edgeLookups ==
    /\ Traversing /\ fn.at = "running"
    /\ \E i \in 1..Len(fn.calls) :
        /\ fn.calls[i].at = "edges"
        /\ \E edgeResults \in EdgeResults(fn.calls[i].nodeId, fn.calls[i].adjacentNodes,
                                          fn.orgId) :
            fn' = enterAll([fn EXCEPT !.result.edges = @ \o edgeResults,
                                      !.calls = Without(@, i)],
                           fn.calls[i].adjacentNodes, fn.calls[i].currentDepth + 1,
                           TraverseMaxDepth, fn.calls[i].currentPath)
    /\ TraverseFrame

\* A lookup throws: the call logs the error and returns.
lookupThrows ==
    /\ Traversing /\ fn.at = "running"
    /\ \E i \in 1..Len(fn.calls) : fn' = [fn EXCEPT !.calls = Without(@, i)]
    /\ TraverseFrame

\* Every call has returned: traverseGraph answers with the result.
traversalReturns ==
    /\ Traversing /\ fn.at = "running" /\ fn.calls = <<>>
    /\ fn' = [fn EXCEPT
                !.at = "returned",
                !.response = Response(200, JSONstringify(
                    [nodes |-> fn.result.nodes, edges |-> fn.result.edges,
                     paths |-> fn.result.paths,
                     metadata |-> [org_id |-> fn.orgId, start_node |-> fn.body.start_node,
                                   max_depth |-> TraverseMaxDepth,
                                   total_nodes |-> Len(fn.result.nodes),
                                   total_edges |-> Len(fn.result.edges),
                                   total_paths |-> Len(fn.result.paths)]]))]
    /\ TraverseFrame

NextTraverse ==
    \/ callTraverseNode
    \/ nodeLookup
    \/ adjacencyLookup
    \/ edgeLookups
    \/ lookupThrows
    \/ traversalReturns

SpecTraverse == InitTraverse /\ [][NextTraverse]_vars

\* The steps a traversal takes when no lookup throws.
traversalProceeds ==
    \/ callTraverseNode
    \/ nodeLookup
    \/ adjacencyLookup
    \/ edgeLookups
    \/ traversalReturns

\* The runtime resumes a call when the lookup it waits for has settled, and a
\* lookup of the store or of the cache settles; that a lookup throws is never
\* relied on.
SpecTraverseFair == SpecTraverse /\ WF_vars(traversalProceeds)

(***************************************************************************)
(* getNodes with its query string: filter, sort, limit and page.  The      *)
(* rows of the table are in fn in the order a scan meets them; two rows    *)
(* equal under ORDER BY come in that order, in every query of the same     *)
(* text over unchanged data.                                               *)
(***************************************************************************)
MaxPage == 4        \* last page asked for

Digits == <<"0", "1", "2", "3", "4", "5", "6", "7", "8", "9">>
DigitOf(c) == (CHOOSE i \in 1..10 : Digits[i] = c) - 1

RECURSIVE ParseDigits(_, _)
ParseDigits(s, n) ==
    IF s = <<>> THEN n ELSE ParseDigits(Tail(s), 10 * n + DigitOf(Head(s)))

\* parseInt of a numeral, signed or not.
parseInt(s) ==
    IF Head(s) = "-" THEN 0 - ParseDigits(Tail(s), 0) ELSE ParseDigits(s, 0)

\* The numeral of a page number below ten.
Numeral(n) == <<Digits[n + 1]>>

\* toUpperCase of the sort orders a query gives.
toUpperCase(s) ==
    CASE s = Str("asc") -> Str("ASC")
      [] s = Str("desc") -> Str("DESC")
      [] OTHER -> s

\* Math.ceil(totalRecords / limit): a number, Infinity or NaN.
NotANumber == [is |-> "NaN"]
Infinity == [is |-> "Infinity"]
Number(n) == [is |-> "number", val |-> n]
MathCeilDiv(totalRecords, limit) ==
    IF limit > 0 THEN Number(CeilDiv(totalRecords, limit))
    ELSE IF limit < 0 THEN Number(0 - (totalRecords \div (0 - limit)))
    ELSE IF totalRecords = 0 THEN NotANumber
    ELSE Infinity

\* page < totalPages
LessThan(page, totalPages) ==
    CASE totalPages.is = "number" -> page < totalPages.val
      [] totalPages.is = "Infinity" -> TRUE
      [] OTHER -> FALSE

\* JSON.stringify of a number: null for Infinity and NaN.
NumberToJSON(x) == IF x.is = "number" THEN x ELSE Null

\* (page - 1) * limit
Offset_ofNextPage(page, limit) == page * limit
Offset(page, limit) == (page - 1) * limit

\* WHERE org_id = ? AND type = ? AND created_by = ? AND updated_by = ?, each
\* of the last three when the query gives a non-empty value.
Filtered(row, orgId, query) ==
    /\ row.org_id = orgId
    /\ (Has(query, "type") /\ query.type # <<>>) => row.type = query.type
    /\ (Has(query, "created_by") /\ query.created_by # <<>>) =>
           row.created_by = query.created_by
    /\ (Has(query, "updated_by") /\ query.updated_by # <<>>) =>
           row.updated_by = query.updated_by

\* ORDER BY sortBy sortOrder: row a comes before row b.
Precedes(a, b, sortBy, sortOrder) ==
    IF sortOrder = "ASC" THEN a[sortBy[1]] < b[sortBy[1]]
    ELSE a[sortBy[1]] > b[sortBy[1]]

\* The row put into the ordered rows, behind the rows it does not precede.
Inserted(row, ordered, sortBy, sortOrder) ==
    LET before == {i \in 1..Len(ordered) : ~Precedes(row, ordered[i], sortBy, sortOrder)}
        k == IF \A i \in 1..Len(ordered) : i \in before THEN Len(ordered)
             ELSE (CHOOSE i \in 1..Len(ordered) :
                       i \notin before /\ \A j \in 1..(i - 1) : j \in before) - 1
    IN  SubSeq(ordered, 1, k) \o <<row>> \o SubSeq(ordered, k + 1, Len(ordered))

RECURSIVE Ordered(_, _, _, _)
\* The rows of the scan that pass the filter, in the order of ORDER BY.
Ordered(scan, orgId, query, ordered) ==
    IF scan = <<>> THEN ordered
    ELSE Ordered(Tail(scan), orgId, query,
                 IF Filtered(Head(scan), orgId, query)
                 THEN Inserted(Head(scan), ordered,
                               IF Has(query, "sort_by") THEN query.sort_by
                               ELSE Str("created_at"),
                               IF Has(query, "sort_order")
                                  /\ toUpperCase(query.sort_order) = Str("ASC")
                               THEN "ASC" ELSE "DESC")
                 ELSE ordered)

\* LIMIT limit OFFSET offset: a negative limit is no limit, a negative
\* offset is none.
LimitOffset(rows, limit, offset) ==
    LET from == IF offset < 0 THEN 1 ELSE offset + 1
        to == IF limit < 0 \/ from + limit - 1 > Len(rows) THEN Len(rows)
              ELSE from + limit - 1
    IN  SubSeq(rows, from, to)

\* getNodes on the rows of the scan, for the org and the query string.
getNodesPage(scan, orgId, query) ==
    LET limit == IF Has(query, "limit") THEN parseInt(query.limit) ELSE DefaultLimit
        page == IF Has(query, "page") THEN parseInt(query.page) ELSE 1
        offset == Offset(page, limit)
        matching == Ordered(scan, orgId, query, <<>>)
        totalRecords == Len(matching)
        totalPages == MathCeilDiv(totalRecords, limit)
        results == LimitOffset(matching, limit, offset)
    IN  Response(200, JSONstringify(
            [data |-> [i \in 1..Len(results) |-> FromRow(results[i])],
             pagination |->
                 [page |-> page, limit |-> limit, total_records |-> totalRecords,
                  total_pages |-> NumberToJSON(totalPages),
                  has_next_page |-> LessThan(page, totalPages),
                  has_prev_page |-> page > 1]]))

\* Tables of org a and org b in the order of a scan: rows created at the
\* same time, rows of two types, a single row, no row of org a.
PageRow(id, org, type, createdAt, updatedAt) ==
    Row(GraphNode(id, org, type, P1, createdAt, updatedAt, Str("ua"), Str("ua")))
PageTables ==
    {<<PageRow(N1, OrgA, Str("t1"), 0, 1), PageRow(N2, OrgA, Str("t1"), 0, 0),
       PageRow(N1, OrgB, Str("t1"), 0, 0), PageRow(N3, OrgA, Str("t2"), 1, 0)>>,
     <<PageRow(N3, OrgA, Str("t1"), 0, 0), PageRow(N2, OrgA, Str("t1"), 1, 1),
       PageRow(N1, OrgA, Str("t1"), 0, 1)>>,
     <<PageRow(N1, OrgA, Str("t1"), 0, 0)>>,
     <<PageRow(N1, OrgB, Str("t1"), 0, 0)>>}

\* Query strings without a page.
PageQueries ==
    {l @@ t @@ s :
        l \in {EmptyObject} \cup {[limit |-> n] : n \in {<<"1">>, <<"2">>, <<"0">>, <<"-", "1">>}},
        t \in {EmptyObject, [type |-> Str("t1")]},
        s \in {EmptyObject, [sort_order |-> Str("asc")],
               [sort_by |-> Str("updated_at"), sort_order |-> Str("ASC")]}}

Paging == Has(fn, "op") /\ fn.op = "getNodes"

InitPages ==
    \E scan \in PageTables, query \in PageQueries :
        InitWorker({[nodes |-> {scan[i] : i \in 1..Len(scan)}, edges |-> {},
                     kv |-> EmptyMap]}, FALSE,
                   [op |-> "getNodes", scan |-> scan, orgId |-> OrgA, query |-> query,
                    pages |-> <<>>])

\* The client asks for the next page of the same query.
applyGetNodes ==
    /\ Paging /\ Len(fn.pages) < MaxPage
    /\ fn' = [fn EXCEPT !.pages =
                 Append(@, getNodesPage(fn.scan, fn.orgId,
                                        ("page" :> Numeral(Len(fn.pages) + 1)) @@ fn.query))]
    /\ UNCHANGED <<store, bucket, authCache, now, rq, pc, params, handler, hdrs,
                   resp, trace, served, wide, life, log, other>>

SpecPages == InitPages /\ [][applyGetNodes]_vars

(***************************************************************************)
(* node.ts: createNode and updateNode of two requests, one await at a      *)
(* time.  Both write node n1 of org a as the principal ua; the calls are   *)
(* kept in fn.calls.                                                       *)
(***************************************************************************)
WriterBodies ==
    {[handler |-> "createNode", body |-> [id |-> N1, type |-> Str("t2"), properties |-> P2]],
     [handler |-> "createNode", body |-> [id |-> N1, type |-> Str("t1")]],
     [handler |-> "updateNode", body |-> [properties |-> P3]],
     [handler |-> "updateNode", body |-> [type |-> Str("t2")]]}

WriterCall(c) == [handler |-> c.handler, body |-> c.body, at |-> "called", node |-> Null]

Writing == Has(fn, "op") /\ fn.op = "writers"

WriterFrame ==
    UNCHANGED <<edges, qdrant, bucket, authCache, rq, pc, params, handler, hdrs,
                resp, trace, served, wide, life, log, other>>

\* UPDATE nodes SET type, properties, updated_at, updated_by, user_agent,
\* client_ip WHERE id = ? AND org_id = ?: the row's other columns stay.
UpdateRow(table, node) ==
    {IF r.id = node.id /\ r.org_id = node.org_id
     THEN [r EXCEPT !.type = node.type,
                    !.properties = JSONstringify(node.properties),
                    !.updated_at = node.updated_at,
                    !.updated_by = node.updated_by,
                    !.user_agent = node.user_agent,
                    !.client_ip = node.client_ip]
     ELSE r : r \in table}

InitWriters ==
    \E a, b \in WriterBodies :
        InitWorker({CachedStore, [CachedStore EXCEPT !.nodes = {Row(NodeB)},
                                                     !.kv = EmptyMap]},
                   FALSE,
                   [op |-> "writers", calls |-> <<WriterCall(a), WriterCall(b)>>])

\* Time goes by between the awaits.
tick ==
    /\ Writing /\ now < MaxNow
    /\ now' = now + 1
    /\ UNCHANGED <<store, fn>>
    /\ WriterFrame

\* createNode up to its INSERT: the node is built from the body and the
\* clock.
prepareNode(i) ==
    /\ Writing /\ fn.calls[i].at = "called" /\ fn.calls[i].handler = "createNode"
    /\ LET body == fn.calls[i].body
           node == GraphNode(body.id, OrgA,
                       IF Has(body, "type") THEN body.type ELSE Str("default"),
                       IF Has(body, "properties") THEN body.properties ELSE NoParams,
                       now, now, Str("ua"), Str("ua"))
       IN  fn' = [fn EXCEPT !.calls[i].at = "prepared", !.calls[i].node = node]
    /\ UNCHANGED <<store, now>>
    /\ WriterFrame

\* updateNode up to its UPDATE: the SELECT of the existing row and the merge;
\* 404 when there is no row.
selectExisting(i) ==
    /\ Writing /\ fn.calls[i].at = "called" /\ fn.calls[i].handler = "updateNode"
    /\ LET existing == Select(nodes, N1, OrgA)
           body == fn.calls[i].body
       IN  IF existing = {}
           THEN fn' = [fn EXCEPT !.calls[i].at = "returned"]
           ELSE LET old == CHOOSE r \in existing : TRUE
                    updatedNode == GraphNode(N1, OrgA,
                        IF Has(body, "type") THEN body.type ELSE old.type,
                        IF Has(body, "properties")
                        THEN Spread(JSONparse(old.properties), body.properties)
                        ELSE JSONparse(old.properties),
                        old.created_at, now, old.created_by, Str("ua"))
                IN  fn' = [fn EXCEPT !.calls[i].at = "prepared",
                                     !.calls[i].node = updatedNode]
    /\ UNCHANGED <<store, now>>
    /\ WriterFrame

\* await GRAPH_DB ... run(): the INSERT ... ON CONFLICT of createNode, the
\* UPDATE of updateNode.
writeRow(i) ==
    /\ Writing /\ fn.calls[i].at = "prepared"
    /\ nodes' = IF fn.calls[i].handler = "createNode"
                THEN Upsert(nodes, Row(fn.calls[i].node))
                ELSE UpdateRow(nodes, fn.calls[i].node)
    /\ fn' = [fn EXCEPT !.calls[i].at = "written"]
    /\ UNCHANGED <<edges, kv, qdrant, now>>
    /\ WriterFrame

\* await GRAPH_KV.put(`node:${orgId}:${nodeId}`, JSON.stringify(node)), and
\* the handler returns.
putCache(i) ==
    /\ Writing /\ fn.calls[i].at = "written"
    /\ kv' = KVput(NodeKey(OrgA, N1), JSONstringify(fn.calls[i].node))
    /\ fn' = [fn EXCEPT !.calls[i].at = "returned"]
    /\ UNCHANGED <<nodes, edges, qdrant, now>>
    /\ WriterFrame

NextWriters ==
    \/ tick
    \/ \E i \in 1..2 : prepareNode(i)
    \/ \E i \in 1..2 : selectExisting(i)
    \/ \E i \in 1..2 : writeRow(i)
    \/ \E i \in 1..2 : putCache(i)

SpecWriters == InitWriters /\ [][NextWriters]_vars

(***************************************************************************)
(* The gate's caches under two concurrent calls of authenticate, one await *)
(* at a time.  The calls are kept in fn.calls, the key set the IdP serves  *)
(* in fn.idp, the refreshes that completed in fn.completed.                *)
(***************************************************************************)
Refreshing == Has(fn, "op") /\ fn.op = "refresh"

RefreshFrame ==
    UNCHANGED <<store, bucket, rq, pc, params, handler, hdrs, resp, trace,
                served, wide, life, log, other>>

RefreshToken == Jwt("ok", "ua", Array(<<Scope(OrgA, Read)>>))

\* A gate that records the time of a refresh whose fetch failed as well.
RecordedFetch_evenIfFailed(outcome, time) == time

\* lastJwksFetch = now follows the await of the fetch: a fetch that throws
\* leaves the recorded time as it is.
RecordedFetch(outcome, time) == IF outcome = "fail" THEN lastJwksFetch ELSE time

\* The call returns: 401 from the catch, or on to the route and the handler.
Returned(call, status) == [call EXCEPT !.at = "returned", !.status = status]

\* From `const now = Date.now()` to the next await or to the return: the
\* fetch of the key set when there is none or it is older than the ten
\* minutes, the verification against the cached key set otherwise.
afterDiscovery(call, oidc) ==
    IF cachedJwks = "null" \/ now - lastJwksFetch > JwksTtl
    THEN IF oidc = "bad" THEN Returned(call, 401)
         ELSE [call EXCEPT !.at = "fetching", !.now = now]
    ELSE Returned(call, IF jwtVerify(RefreshToken, cachedJwks) THEN 200 ELSE 401)

InitRefresh ==
    InitWorker({CachedStore}, FALSE,
               [op |-> "refresh", idp |-> "good", completed |-> {},
                calls |-> [i \in 1..2 |-> [at |-> "called", now |-> 0, status |-> 0]]])

\* The IdP rotates its keys.
rotateKeys ==
    /\ Refreshing /\ fn.idp = "good"
    /\ fn' = [fn EXCEPT !.idp = "rotated"]
    /\ UNCHANGED <<authCache, now>>
    /\ RefreshFrame

\* Time goes by between the awaits.
clockTick ==
    /\ Refreshing /\ now < MaxNow
    /\ now' = now + 1
    /\ UNCHANGED <<authCache, fn>>
    /\ RefreshFrame

\* authenticate up to its first await.
enterGate(i) ==
    /\ Refreshing /\ fn.calls[i].at = "called"
    /\ fn' = [fn EXCEPT !.calls[i] =
                IF cachedOidc = "null" THEN [@ EXCEPT !.at = "discovering"]
                ELSE afterDiscovery(@, cachedOidc)]
    /\ UNCHANGED <<authCache, now>>
    /\ RefreshFrame

\* cachedOidc = await fetch(env.OIDC_DISCOVERY_URL).then(res => res.json())
discoveryCompletes(i) ==
    /\ Refreshing /\ fn.calls[i].at = "discovering"
    /\ \E o \in NetOutcomes :
        IF o = "fail"
        THEN /\ fn' = [fn EXCEPT !.calls[i] = Returned(@, 401)]
             /\ UNCHANGED authCache
        ELSE LET oidc == IF o = "ok" THEN "good" ELSE "bad"
             IN  /\ cachedOidc' = oidc
                 /\ fn' = [fn EXCEPT !.calls[i] = afterDiscovery(@, oidc)]
                 /\ UNCHANGED <<cachedJwks, lastJwksFetch>>
    /\ UNCHANGED now
    /\ RefreshFrame

\* cachedJwks = await fetch(cachedOidc.jwks_uri).then(res => res.json());
\* lastJwksFetch = now; and the verification that follows.
jwksCompletes(i) ==
    /\ Refreshing /\ fn.calls[i].at = "fetching"
    /\ \E o \in NetOutcomes :
        LET jwks == IF o = "ok" THEN fn.idp ELSE "bad"
        IN  /\ lastJwksFetch' = RecordedFetch(o, fn.calls[i].now)
            /\ IF o = "fail"
               THEN /\ fn' = [fn EXCEPT !.calls[i] = Returned(@, 401)]
                    /\ UNCHANGED cachedJwks
               ELSE /\ cachedJwks' = jwks
                    /\ fn' = [fn EXCEPT
                                !.calls[i] = Returned(@,
                                    IF jwtVerify(RefreshToken, jwks) THEN 200 ELSE 401),
                                !.completed = @ \cup {[jwks |-> jwks,
                                                       time |-> fn.calls[i].now]}]
    /\ UNCHANGED <<cachedOidc, now>>
    /\ RefreshFrame

NextRefresh ==
    \/ rotateKeys
    \/ clockTick
    \/ \E i \in 1..2 : enterGate(i)
    \/ \E i \in 1..2 : discoveryCompletes(i)
    \/ \E i \in 1..2 : jwksCompletes(i)

SpecRefresh == InitRefresh /\ [][NextRefresh]_vars

(***************************************************************************)
(* authCallbackHandler, one await at a time.  The call is kept in fn: the  *)
(* code parameter, what the IdP answered, the response.                    *)
(***************************************************************************)
\* url.searchParams.get('code'): null, '' or a code.
NoCode == [none |-> TRUE]
Code(value) == [value |-> value]
CallbackCodes == {NoCode, Code(<<>>), Code(Str("c1")), Code(Str("invalid"))}

\* The id tokens the token endpoint can return: signed for this issuer and
\* audience or not, with or without sub and email.
IdTokens ==
    {[kind |-> "jwt", verify |-> v, sub |-> u, email |-> e] :
        v \in {"ok", "rejected"}, u \in {Str("ua"), <<>>},
        e \in {<<"ua", "@", "x">>, <<>>}}

\* What a fetch comes to: an ok answer, an answer with an error status, an
\* ok answer with another JSON document, a rejection.
CallbackOutcomes == NetOutcomes \cup {"notok"}

Calling == Has(fn, "op") /\ fn.op = "callback"

CallbackFrame ==
    UNCHANGED <<store, bucket, authCache, now, rq, pc, params, handler, hdrs,
                resp, trace, served, wide, life, log, other>>

\* new Response(null, {status: 302, headers: {Location: '/', 'Set-Cookie':
\* `session=${idToken}; HttpOnly; Path=/; Secure; SameSite=Lax`}})
SessionRedirect(idToken) ==
    [status |-> 302, body |-> Null, location |-> <<"/">>,
     setCookie |-> [name |-> "session", value |-> idToken]]

\* The catch of the handler.
AuthenticationFailed == Response(500, Text("Authentication failed"))

CallbackReturns(response) == [fn EXCEPT !.at = "returned", !.response = response]

InitCallback ==
    \E code \in CallbackCodes :
        InitWorker({CachedStore}, FALSE,
                   [op |-> "callback", code |-> code, at |-> "called",
                    exchange |-> "none", idToken |-> Null, jwks |-> "null",
                    response |-> NoResponse])

\* The handler up to its first await: 400 without a code.
callbackEnters ==
    /\ Calling /\ fn.at = "called"
    /\ fn' = IF ~Has(fn.code, "value") \/ fn.code.value = <<>>
             THEN CallbackReturns(Response(400, Text("Missing code parameter")))
             ELSE [fn EXCEPT !.at = "discovering"]
    /\ CallbackFrame

\* await fetch(env.OIDC_DISCOVERY_URL), oidcRes.ok, oidcRes.json(); a
\* document without token_endpoint makes the next fetch throw.
discoveryAnswers ==
    /\ Calling /\ fn.at = "discovering"
    /\ \E o \in CallbackOutcomes :
        fn' = IF o = "ok" THEN [fn EXCEPT !.at = "exchanging"]
              ELSE CallbackReturns(AuthenticationFailed)
    /\ CallbackFrame

\* await fetch(oidc.token_endpoint, ...): 401 when the answer is not ok;
\* tokens.id_token and the decoding of its header.
exchangeAnswers ==
    /\ Calling /\ fn.at = "exchanging"
    /\ \E o \in CallbackOutcomes :
        IF o = "notok"
        THEN fn' = [CallbackReturns(Response(401, Text("Token exchange failed ")))
                        EXCEPT !.exchange = "notok"]
        ELSE IF o \in {"fail", "garbage"}
        THEN \* the fetch rejects, or the answer holds no id_token
             fn' = [CallbackReturns(AuthenticationFailed) EXCEPT !.exchange = o]
        ELSE \E t \in IdTokens :
             fn' = [fn EXCEPT !.at = "keys", !.exchange = "ok", !.idToken = t]
    /\ CallbackFrame

\* await fetch(oidc.jwks_uri), jwksRes.ok, jwksRes.json() and the key of the
\* token's kid: a key set without it ("rotated") makes the handler throw.
jwksAnswers ==
    /\ Calling /\ fn.at = "keys"
    /\ \E o \in CallbackOutcomes, keys \in {"good", "rotated"} :
        fn' = IF o = "ok" /\ keys = "good"
              THEN [fn EXCEPT !.at = "verifying", !.jwks = keys]
              ELSE [CallbackReturns(AuthenticationFailed) EXCEPT
                        !.jwks = IF o = "ok" THEN keys
                                 ELSE IF o = "garbage" THEN "bad" ELSE "null"]
    /\ CallbackFrame

\* importJWK, jwtVerify with issuer and audience, the check of sub and
\* email, the session cookie.
tokenVerified ==
    /\ Calling /\ fn.at = "verifying"
    /\ fn' = IF ~jwtVerify(fn.idToken, fn.jwks)
             THEN CallbackReturns(AuthenticationFailed)
             ELSE IF fn.idToken.sub = <<>> \/ fn.idToken.email = <<>>
             THEN CallbackReturns(Response(400, Text("Invalid token payload")))
             ELSE CallbackReturns(SessionRedirect(fn.idToken))
    /\ CallbackFrame

NextCallback ==
    \/ callbackEnters
    \/ discoveryAnswers
    \/ exchangeAnswers
    \/ jwksAnswers
    \/ tokenVerified

SpecCallback == InitCallback /\ [][NextCallback]_vars

(***************************************************************************)
(* Properties of the router.                                               *)
(***************************************************************************)
\* The segments of a path or of a pattern: what stands between the slashes.
PathSegments(path) == Tail(Split(path, "/"))

\* The pattern has as many segments as the path, and its literal segments are
\* the path's.
PatternFits(pattern, path) ==
    LET ps == PathSegments(pattern)
        xs == PathSegments(path)
    IN  /\ Len(ps) = Len(xs)
        /\ \A i \in 1..Len(ps) : ~StartsWith(ps[i], <<":">>) => ps[i] = xs[i]

MatchRouteApplied == Has(fn, "op") /\ fn.op = "matchRoute" /\ fn.applied

\* C10: matchRoute returns a match for a path exactly when some pattern has
\* the path's number of segments and equal literal segments; the orgId it
\* returns is the path's first segment and the id, for a pattern with :id, the
\* path's third segment; '/' and '/invalid/path' give null.
C10_MatchRouteBindsSegments ==
    MatchRouteApplied =>
        /\ (fn.result # Null) <=>
               \E i \in 1..Len(RoutePatterns) : PatternFits(RoutePatterns[i], fn.path)
        /\ fn.result # Null =>
               /\ Has(fn.result.params, "orgId")
               /\ fn.result.params.orgId = PathSegments(fn.path)[1]
               /\ Includes(fn.result.pattern, <<":", "id">>) =>
                      /\ Has(fn.result.params, "id")
                      /\ fn.result.params.id = PathSegments(fn.path)[3]
        /\ fn.path \in {<<"/">>, Path(<<Str("invalid"), Str("path")>>)} =>
               fn.result = Null

(***************************************************************************)
(* Properties of the permission check.                                     *)
(***************************************************************************)
\* read < write < audit
Rank(level) ==
    CASE level = Read -> 1 [] level = Write -> 2 [] level = Audit -> 3 [] OTHER -> 0

\* The scope (s, l) allows requiredLevel on orgId.
Allows(s, l, orgId, requiredLevel) ==
    /\ s = orgId \/ s = Star
    /\ l = Star \/ (Rank(l) > 0 /\ Rank(l) >= Rank(requiredLevel))

HasPermissionApplied == Has(fn, "op") /\ fn.op = "hasPermission" /\ fn.applied

PathOrg == PathSegments(rq.path)[1]
AddressedTo(org) == pc # "idle" /\ PathOrg = org

\* The token holds scopes, all of them of this org.
CoversOnly(token, org) ==
    /\ token.kind = "jwt"
    /\ \A i \in 1..Len(UserPermissions(token).val) :
           ScopeOrg(UserPermissions(token).val[i]) = org

\* What an org holds: its node rows, its edge rows, its node cache entries.
RowsOf(table, org) == {r \in table : r.org_id = org}
CacheOf(cache, org) ==
    [k \in {x \in DOMAIN cache : StartsWith(x, <<"node", ":">> \o org \o <<":">>)}
        |-> cache[k]]
Holding(ns, es, cache, org) ==
    <<RowsOf(ns, org), RowsOf(es, org), CacheOf(cache, org)>>

\* The nodes and edges a response carries.
Carried(r) ==
    IF ~Has(r, "body") \/ ~Has(r.body, "json") THEN {}
    ELSE LET b == r.body.json
         IN  (IF Has(b, "org_id") /\ Has(b, "id") THEN {b} ELSE {})
             \cup (IF Has(b, "data") THEN b.data ELSE {})
             \cup (IF Has(b, "nodes") THEN b.nodes ELSE {})
             \cup (IF Has(b, "edges") THEN b.edges ELSE {})

\* A handler answers the request in this step.
Answers(name) == pc = "handler" /\ handler = name /\ pc' = "done"

\* The request names an id that org a does not hold.
NotHeldByA(table) == Has(params, "id") /\ Select(table, params.id, OrgA) = {}

\* C1: while a request with a token covering only org a is served, what org b
\* holds is not modified and no response carries a node or an edge of org b;
\* a request for an id that org a does not hold is answered as for an id that
\* exists nowhere, whether or not org b holds it: GET /a/edge/E is 404 'Edge
\* not found'.
C1_TokenOfAStaysInA ==
    [][ (pc # "idle" /\ CoversOnly(rq.token, OrgA)) =>
            /\ Holding(nodes', edges', kv', OrgB) = Holding(nodes, edges, kv, OrgB)
            /\ \A x \in Carried(resp') : x.org_id # OrgB
            /\ (Answers("getEdge") /\ PathOrg = OrgA /\ NotHeldByA(edges)) =>
                   resp' = Response(404, JSONstringify(
                               [error |-> "Edge not found", edgeId |-> params.id,
                                orgId |-> OrgA]))
            /\ (Answers("getNode") /\ PathOrg = OrgA /\ NotHeldByA(nodes)
                    /\ NodeKey(OrgA, params.id) \notin DOMAIN kv) =>
                   resp' = Response(404, Text("Node not found"))
      ]_vars

\* C2: no step taken for a request addressed to /a/... changes a node row, an
\* edge row or a node cache entry of org b, the two orgs holding the same ids.
C2_WritesToALeaveB ==
    [][ AddressedTo(OrgA) =>
            Holding(nodes', edges', kv', OrgB) = Holding(nodes, edges, kv, OrgB) ]_vars

\* The rows and cache entries an import step has written.
Written(before, after) == after \ before
WrittenKeys ==
    {k \in DOMAIN kv' : StartsWith(k, <<"node", ":">>)
                            /\ (k \in DOMAIN kv => kv'[k] # kv[k])}

\* C3: every node and edge that POST /:org/metadata/import writes is stored,
\* in the durable store and in the node cache, under the org of the path,
\* whatever org_id the record of the body carries.
C3_ImportStoresUnderPathOrg ==
    [][ Answers("importMetadata") =>
            /\ \A r \in Written(nodes, nodes') \cup Written(edges, edges') :
                   r.org_id = PathOrg
            /\ \A k \in WrittenKeys :
                   /\ StartsWith(k, <<"node", ":">> \o PathOrg \o <<":">>)
                   /\ kv'[k].json.org_id = PathOrg
            /\ resp'.status = 200 =>
                   /\ \A i \in 1..Len(rq.body.nodes) :
                          /\ Select(nodes', rq.body.nodes[i].id, PathOrg) # {}
                          /\ NodeKey(PathOrg, rq.body.nodes[i].id) \in DOMAIN kv'
                   /\ \A i \in 1..Len(rq.body.edges) :
                          Select(edges', rq.body.edges[i].id, PathOrg) # {}
      ]_vars

(***************************************************************************)
(* Properties of the gate.                                                 *)
(***************************************************************************)
\* The scopes a token holds, whether its claim is an array or one string.
ScopesHeld(token) ==
    CASE token.permissions.kind = "array" -> token.permissions.val
      [] token.permissions.kind = "string" -> Split(token.permissions.val, ",")
      [] OTHER -> <<>>

\* The token is genuine and one of its scopes allows the level on the org.
Grants(token, org, level) ==
    /\ token.kind = "jwt"
    /\ token.verify = "ok"
    /\ \E i \in 1..Len(ScopesHeld(token)) :
           Allows(ScopeOrg(ScopesHeld(token)[i]), ScopeLevel(ScopesHeld(token)[i]),
                  org, level)

\* The patterns the path of the request fits, and the level the route map
\* requires for its method.
Fitting == {i \in 1..Len(RoutePatterns) : PatternFits(RoutePatterns[i], rq.path)}
Routed == \E i \in Fitting : rq.method \in DOMAIN RouteMap(RoutePatterns[i])
RequiredLevel ==
    RouteMap(RoutePatterns[CHOOSE i \in Fitting : TRUE])[rq.method].requiredPermission

\* A handler has been called for the request.
HandlerRan == pc = "handler" \/ \E i \in 1..Len(trace) : trace[i].ev = "handler"

InvalidToken == Response(401, Message("Unauthorized: Invalid authentication token"))

\* C4: a request to a path under /a, with whatever segments and method, whose
\* token does not grant (a, read) is answered 401 or 403 and no handler runs.
C4_WithoutReadOnAIs401Or403 ==
    (AddressedTo(OrgA) /\ ~Grants(rq.token, OrgA, Read)) =>
        /\ ~HandlerRan
        /\ pc = "done" => resp.status \in {401, 403}

\* C4 as the code has it: no handler runs for such a request; it is answered
\* 401 or 403 when its path fits a pattern that defines its method, 404 when
\* its path fits no pattern, and 404 or 405 when the pattern does not define
\* the method.
C4_WithoutReadOnAIsRefused ==
    (AddressedTo(OrgA) /\ ~Grants(rq.token, OrgA, Read)) =>
        /\ ~HandlerRan
        /\ pc = "done" =>
               resp.status \in (IF Routed THEN {401, 403}
                                ELSE IF Fitting = {} THEN {404}
                                ELSE {404, 405})

\* A genuine token of org b has been refused on a route of org a.
C4_Witness ==
    /\ pc = "done" /\ AddressedTo(OrgA) /\ Routed
    /\ rq.token.kind = "jwt" /\ rq.token.verify = "ok"
    /\ ~Grants(rq.token, OrgA, Read)
    /\ Grants(rq.token, OrgB, Write)
    /\ resp.status = 403

\* C6: a handler is called only after the token has been verified and the
\* permission check for the org of the path and the level the matched pattern
\* requires for the method has passed; a request that fails authentication,
\* authorisation or routing ends without a handler step.
C6_HandlerOnlyAfterGate ==
    /\ HandlerRan =>
           /\ Routed
           /\ Grants(rq.token, PathOrg, RequiredLevel)
           /\ Len(trace) >= 2
           /\ trace[1] = Verified
           /\ trace[2] = Permitted(PathOrg, RequiredLevel)
    /\ (pc = "done" /\ (resp.status \in {401, 403, 405} \/ ~Routed)) => ~HandlerRan

\* The verification of the presented token fails in this step: the token is
\* not genuine, or the discovery document or the key set could not be had.
VerificationFails ==
    /\ pc = "authenticate"
    /\ rq.token # NoToken
    /\ \/ rq.token.verify # "ok"
       \/ cachedOidc' # "good"
       \/ cachedJwks' # "good"
       \/ (cachedJwks # "null" /\ now - lastJwksFetch > JwksTtl
               /\ lastJwksFetch' # now)

\* C7: whenever the verification of a presented token fails, the request is
\* answered 401 'Unauthorized: Invalid authentication token' and no handler
\* is called.
C7_FailedVerificationIs401 ==
    [][ VerificationFails =>
            (resp' = InvalidToken /\ pc' = "done" /\ ~HandlerRan') ]_vars

\* A token that is not genuine has been answered, the key set being at hand.
C7_Witness ==
    /\ pc = "done"
    /\ rq.token.kind = "jwt" /\ rq.token.verify # "ok"
    /\ cachedOidc = "good" /\ cachedJwks = "good"
    /\ resp = InvalidToken
    /\ ~HandlerRan

\* The org the gate checks: params?.orgId ?? ''
GateOrg == IF Has(params, "orgId") THEN params.orgId ELSE <<>>

\* C8: a verified token whose permissions claim is one comma-joined string is
\* authorised as the token holding the same scopes in an array is: passed on
\* to the handler when a scope allows the request, answered 403 otherwise.
C8_StringClaimAsArray ==
    [][ (/\ pc = "authenticate"
         /\ rq.token.kind = "jwt"
         /\ rq.token.verify = "ok"
         /\ rq.token.permissions.kind = "string"
         /\ cachedOidc' = "good" /\ cachedJwks' = "good"
         /\ (cachedJwks = "null" \/ now - lastJwksFetch > JwksTtl) =>
                lastJwksFetch' = now)
        => IF Grants(rq.token, GateOrg, RequiredLevel)
           THEN pc' = "handler"
           ELSE pc' = "done" /\ resp'.status = 403 ]_vars

\* C9: a request whose path fits no pattern is answered 404; a request whose
\* path fits a pattern that does not define its method is answered 405.
C9_NoPattern404NoMethod405 ==
    pc = "done" =>
        /\ Fitting = {} => resp.status = 404
        /\ (Fitting # {} /\ ~Routed) => resp.status = 405

(***************************************************************************)
(* The lifecycle of a node: what the history tells.                        *)
(***************************************************************************)
\* The handler a request of the history was passed to.
HandlerOf(i) == log[i].handler

\* The requests of the history; the first entry is the start.
Past == 2..Len(log)

\* Request i went to the handler named, for node n1 of org a, and was
\* answered 200.
Succeeded(i, name) == HandlerOf(i) = name /\ log[i].resp.status = 200

\* The rows node n1 of org a had when request i was answered.
RowsAt(i) == Select(log[i].nodes, N1, OrgA)

\* Requests i and i + 1 are the same POST with a client-supplied id, both
\* answered 200.
RepeatedPost(i) ==
    /\ i \in Past /\ i + 1 \in Past
    /\ log[i].rq = log[i + 1].rq
    /\ Has(log[i].rq.body, "id") /\ log[i].rq.body.id = N1
    /\ Succeeded(i, "createNode") /\ Succeeded(i + 1, "createNode")

\* A row without the columns that hold times.
Timeless(row) == [f \in DOMAIN row \ {"created_at", "updated_at"} |-> row[f]]

SameKey(r, r2) == r.id = r2.id /\ r.org_id = r2.org_id

\* C12: once a node or edge (id, org_id) exists, its stored created_at and
\* created_by never change under a later mutation: a repeated POST with the
\* same id, a PUT or PATCH, or an import.
C12_CreatedOnce ==
    [][ /\ \A r \in nodes, r2 \in nodes' :
               SameKey(r, r2) =>
                   r2.created_at = r.created_at /\ r2.created_by = r.created_by
        /\ \A e \in edges, e2 \in edges' :
               SameKey(e, e2) =>
                   e2.created_at = e.created_at /\ e2.created_by = e.created_by ]_vars

\* C13: the stored updated_at of a node or edge never decreases across
\* successive mutations (POST upsert, PUT or PATCH, import).
C13_UpdatedAtNeverDecreases ==
    [][ /\ \A r \in nodes, r2 \in nodes' :
               SameKey(r, r2) => r2.updated_at >= r.updated_at
        /\ \A e \in edges, e2 \in edges' :
               SameKey(e, e2) => e2.updated_at >= e.updated_at ]_vars

\* Request i is a POST of node n1 answered 200, and the two requests after
\* it are GETs of the node.
PostThenTwoGets(i) ==
    /\ i \in Past /\ i + 2 \in Past
    /\ Succeeded(i, "createNode")
    /\ Has(log[i].rq.body, "id") /\ log[i].rq.body.id = N1
    /\ HandlerOf(i + 1) = "getNode" /\ HandlerOf(i + 2) = "getNode"

\* The answer to request j is a node of the type and properties posted at i.
ReturnsPosted(i, j) ==
    /\ log[j].resp.status = 200
    /\ JSONparse(log[j].resp.body).type =
           (IF Has(log[i].rq.body, "type") THEN log[i].rq.body.type ELSE Str("default"))
    /\ JSONparse(log[j].resp.body).properties =
           (IF Has(log[i].rq.body, "properties") THEN log[i].rq.body.properties
            ELSE NoParams)

ServedFromCache(j) == Has(log[j].resp, "cache") /\ log[j].resp.cache = "HIT"

BackfilledBetween(i, j) == log[i].other = "found" /\ log[j].other = "answered"

GetAfterDelete(i, j) ==
    /\ i \in Past /\ j \in Past /\ i < j
    /\ Succeeded(i, "deleteNode")
    /\ HandlerOf(j) = "getNode"
    /\ \A k \in i..(j - 1) : RowsAt(k) = {}

\* C15: after DELETE /:O/nodes/:I has succeeded, every later GET of the node
\* returns 404 without an X-Node-Cache header, until a node with that id is
\* created again.
C15_GetAfterDeleteIs404 ==
    \A i, j \in Past : GetAfterDelete(i, j) =>
        log[j].resp.status = 404 /\ ~Has(log[j].resp, "cache")

\* The contents the row of node id of org had at the moments of the history
\* and has now, each as the document getNode makes of it.
Committed(org, id) ==
    {JSONstringify(FromRow(r)) :
        r \in UNION ({Select(log[k].nodes, id, org) : k \in 1..Len(log)}
                       \cup {Select(nodes, id, org)})}

\* C16: whenever the cache holds key node:<org>:<id>, its value equals the
\* content the row (id, org) of the durable store had at some moment in the
\* past; the cache never holds a node state that was never committed.
C16_CacheHoldsCommitted ==
    \A org \in Orgs, id \in {N1, N2} :
        NodeKey(org, id) \in DOMAIN kv =>
            kv[NodeKey(org, id)] \in Committed(org, id)

\* The places of the trace where a statement of this kind completed.
Places(what) == {i \in 1..Len(trace) : trace[i] = Did(what)}

\* Every statement of kind later comes after a statement of kind earlier.
ComesAfter(later, earlier) ==
    \A i \in Places(later) : \E j \in Places(earlier) : j < i

\* C17: within one request, a node write touches the cache only after its
\* statements on the durable store have completed (create and update: the
\* write, then the put; delete: the deletes, then the cache delete), and the
\* vectorization of an edge calls the embedding provider and then the vector
\* index only after the edge's write to the durable store.
C17_StoreBeforeCacheAndVectors ==
    /\ ComesAfter("kv", "ds")
    /\ \A i \in Places("kv"), j \in Places("ds") : j < i
    /\ ComesAfter("ep", "ds")
    /\ ComesAfter("vx", "ep")

\* An edge was written, embedded and indexed.
C17_Witness ==
    /\ handler = "createEdge"
    /\ Places("ds") # {} /\ Places("ep") # {} /\ Places("vx") # {}

\* updateNode takes a step on an existing row and answers 200.
UpdateNodeStep ==
    /\ pc = "handler" /\ handler = "updateNode"
    /\ resp'.status = 200

\* previous overridden, top-level key by key, by given.
Overridden(previous, given) ==
    [key \in DOMAIN previous \cup DOMAIN given |->
        IF key \in DOMAIN given THEN given[key] ELSE previous[key]]

\* C18: PUT /:org/nodes/:id on an existing node stores properties equal to
\* the previously stored properties overridden, top-level key by key, by
\* body.properties (the body wins), and type equal to body.type when given,
\* else the previous type.
C18_PutMergesProperties ==
    [][ UpdateNodeStep =>
          \A old \in Select(nodes, IdParam, OrgId) :
              /\ Cardinality(Select(nodes', IdParam, OrgId)) = 1
              /\ \A new \in Select(nodes', IdParam, OrgId) :
                  /\ JSONparse(new.properties) =
                         Overridden(JSONparse(old.properties),
                                    IF Has(rq.body, "properties")
                                    THEN rq.body.properties ELSE EmptyObject)
                  /\ new.type = IF Has(rq.body, "type") THEN rq.body.type
                                ELSE old.type ]_vars

\* A PUT of k2 has kept the stored k1 and replaced the stored k2.
C18_Witness ==
    /\ pc = "done" /\ handler = "updateNode" /\ resp.status = 200
    /\ rq.body = [properties |-> P3]
    /\ \E r \in Select(nodes, IdParam, OrgId) :
           JSONparse(r.properties) = ("k1" :> Str("v2")) @@ ("k2" :> Str("v2"))

\* The edges of org a that touch node n1 in this table.
Incident(table) ==
    {e \in table : e.org_id = OrgA /\ (e.from_node = N1 \/ e.to_node = N1)}

\* Request j is a GET of edge e1, which touched node n1 before the DELETE of
\* the node answered 200 at i, and no request in between was a POST of the
\* edge or an import.
GetEdgeAfterDelete(i, j) ==
    /\ i \in Past /\ j \in Past /\ i < j
    /\ Succeeded(i, "deleteNode")
    /\ \E e \in Incident(log[i - 1].edges) : e.id = E1
    /\ HandlerOf(j) = "getEdge"
    /\ \A k \in (i + 1)..(j - 1) : HandlerOf(k) \notin {"createEdge", "importMetadata"}

\* C19: after DELETE /:org/nodes/:id has succeeded, the durable store holds
\* no edge of that org whose from_node or to_node is the deleted id, so
\* GET /:org/edge/:E returns 404 for every edge E that was incident to the
\* node.
C19_DeleteRemovesIncidentEdges ==
    /\ \A i \in Past : Succeeded(i, "deleteNode") => Incident(log[i].edges) = {}
    /\ \A i, j \in Past : GetEdgeAfterDelete(i, j) => log[j].resp.status = 404

\* A node with an edge was deleted and the edge then asked for.
C19_Witness ==
    \E i, j \in Past :
        /\ GetEdgeAfterDelete(i, j)
        /\ log[j].resp.status = 404

\* Request i is a DELETE of node n1 that failed, and request i + 1 the
\* client's retry, which did not fail.
RetriedDelete(i) ==
    /\ i \in Past /\ i + 1 \in Past
    /\ HandlerOf(i) = "deleteNode" /\ log[i].resp.status = 500
    /\ HandlerOf(i + 1) = "deleteNode" /\ log[i + 1].resp.status # 500

\* C20: if DELETE /:org/nodes/:id fails after any prefix of its steps (the
\* incident edges' delete, the row's delete, the cache key's delete), the
\* client's retries of the DELETE leave, once one of them is answered without
\* failing, no row of the node, no incident edge and no cache key of it.
C20_RetriedDeleteLeavesNothing ==
    \A i \in Past : (RetriedDelete(i) /\ log[i + 1].other = "nowhere") =>
        /\ RowsAt(i + 1) = {}
        /\ Incident(log[i + 1].edges) = {}
        /\ NodeKey(OrgA, N1) \notin DOMAIN log[i + 1].kv

(***************************************************************************)
(* Edges: creation and update.                                             *)
(***************************************************************************)
\* createEdge takes a step.
CreateEdgeStep == pc = "handler" /\ handler = "createEdge"

\* C21: POST /:org/edge with a body that lacks from_node or to_node is
\* rejected with an error status (400 in the status table, 500 in the test
\* suite) and persists no edge row.
C21_EdgeWithoutEndsIsRejected ==
    [][ (/\ CreateEdgeStep
         /\ ~Has(rq.body, "from_node") \/ ~Has(rq.body, "to_node"))
        => /\ resp'.status \in {400, 500}
           /\ edges' = edges ]_vars

\* Bodies without from_node and without to_node were refused.
C21_Witness ==
    /\ pc = "done" /\ handler = "createEdge"
    /\ rq.body # NoBody
    /\ Has(rq.body, "to_node") /\ ~Has(rq.body, "from_node")
    /\ resp.status = 500

\* The embedding provider or the vector index failed after the edge's write:
\* the write is in the trace to come and the index's upsert is not.
VectorizationFails ==
    /\ CreateEdgeStep
    /\ \E i \in 1..Len(trace') : trace'[i] = Did("ds")
    /\ Has(rq.body, "id") /\ Has(rq.body, "properties")
    /\ HasVectorChunks(rq.body.properties)
    /\ \A i \in 1..Len(trace') : trace'[i] # Did("vx")

\* The row of the table that is the edge the body asks for, written now.
WrittenAsAsked(table) ==
    \E e \in table :
        /\ e.id = rq.body.id /\ e.org_id = OrgId
        /\ e.from_node = rq.body.from_node /\ e.to_node = rq.body.to_node
        /\ e.relationship_type = (IF Has(rq.body, "relationship_type")
                                  THEN rq.body.relationship_type ELSE Str("related"))
        /\ JSONparse(e.properties) = rq.body.properties
        /\ e.updated_at = now

\* C22: if the embedding provider or the vector index fails during
\* POST /:org/edge with properties.vectorize, the response is 5xx and the
\* edge row written before the call remains in the durable store exactly as
\* written.
C22_VectorFailureKeepsRow ==
    [][ VectorizationFails =>
          /\ resp'.status \in 500..599
          /\ WrittenAsAsked(edges')
          /\ Cardinality(Select(edges', rq.body.id, OrgId)) = 1 ]_vars

\* The index failed after the embedding, and the row is there.
C22_Witness ==
    /\ pc = "done" /\ handler = "createEdge" /\ resp.status = 500
    /\ \E i \in 1..Len(trace) : trace[i] = Did("ep")
    /\ \A i \in 1..Len(trace) : trace[i] # Did("vx")
    /\ WrittenAsAsked(edges)

\* updateEdge takes a step on an existing edge and answers 200.
UpdateEdgeStep ==
    /\ pc = "handler" /\ handler = "updateEdge"
    /\ resp'.status = 200

\* C23: PUT or PATCH /:org/edge/:id changes only relationship_type (when
\* supplied), properties (shallow merge, when supplied) and the updated_at,
\* updated_by, user_agent and client_ip of the stored edge; its from_node,
\* to_node, created_at and created_by are unchanged, and so is every other
\* edge.
C23_EdgeUpdateKeepsEndsAndCreation ==
    [][ UpdateEdgeStep =>
          \A old \in Select(edges, IdParam, OrgId) :
              /\ edges' \ Select(edges', IdParam, OrgId) = edges \ {old}
              /\ Cardinality(Select(edges', IdParam, OrgId)) = 1
              /\ \A new \in Select(edges', IdParam, OrgId) :
                  /\ new.from_node = old.from_node /\ new.to_node = old.to_node
                  /\ new.created_at = old.created_at
                  /\ new.created_by = old.created_by
                  /\ new.relationship_type =
                         (IF Has(rq.body, "relationship_type")
                          THEN rq.body.relationship_type ELSE old.relationship_type)
                  /\ JSONparse(new.properties) =
                         Overridden(JSONparse(old.properties),
                                    IF Has(rq.body, "properties")
                                    THEN rq.body.properties ELSE EmptyObject) ]_vars

\* An edge created with properties of its own was given one more.
C23_Witness ==
    /\ pc = "done" /\ handler = "updateEdge" /\ resp.status = 200
    /\ Has(rq.body, "properties")
    /\ \E e \in Select(edges, IdParam, OrgId) :
           /\ DOMAIN JSONparse(e.properties) = {"k1", "k2", "vectorize"}
           /\ e.created_at < e.updated_at

(***************************************************************************)
(* Traversal.                                                              *)
(***************************************************************************)
\* traverseGraph has answered 200.
Traversed == pc = "done" /\ handler = "traverseGraph" /\ resp.status = 200

\* The ids of the nodes the answered traversal names: the start node and the
\* nodes of the result, each of them visited at a depth below max_depth.
VisitedBelowMaxDepth ==
    {rq.body.start_node} \cup {n.id : n \in JSONparse(resp.body).nodes}

\* C24: for every node a traversal visits at a depth below max_depth, the
\* result's edges contain every edge of the durable store, of the org, that
\* leaves the node; edges created through POST /:org/edge are followed.
C24_TraversalFollowsStoredEdges ==
    (Traversed /\ Has(rq.body, "start_node")) =>
        \A e \in edges :
            (e.org_id = OrgId /\ e.from_node \in VisitedBelowMaxDepth) =>
                FromRow(e) \in JSONparse(resp.body).edges

\* The traversal has answered.
TraversalReturned == Traversing /\ fn.at = "returned"

\* C25: in every traversal result each node id appears at most once in the
\* result's nodes, however the sibling calls that share the visited set take
\* turns.
C25_NodeAtMostOnce ==
    Traversing =>
        \A i, j \in 1..Len(fn.result.nodes) :
            fn.result.nodes[i].id = fn.result.nodes[j].id => i = j

\* Two calls were made on n3, by its two parents n1 and n2 running side by
\* side, and the answer names n3 once among its three nodes.
C25_Witness ==
    /\ TraversalReturned
    /\ Len(fn.result.nodes) = 3
    /\ \E i, j \in 1..Len(fn.result.paths) :
           /\ fn.result.paths[i] = <<N1, N2, N3>>
           /\ \E k \in 1..Len(fn.result.paths[j]) :
                  k > 2 /\ SubSeq(fn.result.paths[j], 1, 2) = <<N1, N3>>

\* C26: for every traversal with max_depth = d, every path of the result
\* holds at most d + 1 node ids.
C26_PathWithinDepth ==
    Traversing =>
        \A i \in 1..Len(fn.result.paths) :
            Len(fn.result.paths[i]) <= TraverseMaxDepth + 1

\* A path of the full length was returned for max_depth = 2.
C26_Witness ==
    /\ TraversalReturned
    /\ Has(fn.body, "max_depth") /\ fn.body.max_depth = 2
    /\ \E i \in 1..Len(fn.result.paths) : Len(fn.result.paths[i]) = 3

\* C27: a traversal terminates on every finite graph, cycles and self-loops
\* included, for every max_depth.
C27_TraversalTerminates == <>TraversalReturned

\* A traversal came back from a self-loop and a cycle: n1 -> n1 and
\* n1 -> n2 -> n1.
C27_Witness ==
    /\ TraversalReturned
    /\ \E i, j \in 1..Len(fn.result.paths) :
           /\ fn.result.paths[i] = <<N1, N1>>
           /\ fn.result.paths[j] = <<N1, N2, N1>>

(***************************************************************************)
(* Snapshots: export and import.                                           *)
(***************************************************************************)
\* The items of an array of the body.
Items(array) == {array[i] : i \in 1..Len(array)}

\* importMetadata takes its step on the snapshot of org from, as that org
\* is now, sent to the fresh org to.
SnapshotImportStep(from, to) ==
    /\ pc = "handler" /\ handler = "importMetadata"
    /\ OrgId = to /\ from # to
    /\ Has(rq.body, "nodes") /\ Has(rq.body, "edges")
    /\ Len(rq.body.nodes) = Cardinality(RowsOf(nodes, from))
    /\ Len(rq.body.edges) = Cardinality(RowsOf(edges, from))
    /\ Items(rq.body.nodes) = {FromRow(r) : r \in RowsOf(nodes, from)}
    /\ Items(rq.body.edges) = {FromRow(r) : r \in RowsOf(edges, from)}
    /\ RowsOf(nodes, from) # {}
    /\ RowsOf(nodes, to) = {} /\ RowsOf(edges, to) = {}

\* The record of the table under the org that carries the id and the audit
\* fields of the row.
Preserved(row, table, org) ==
    \E c \in RowsOf(table, org) :
        /\ c.id = row.id
        /\ c.created_at = row.created_at /\ c.updated_at = row.updated_at
        /\ c.created_by = row.created_by /\ c.updated_by = row.updated_by

\* C28: exporting org O and importing the snapshot unchanged through
\* POST /O'/metadata/import into a fresh org O' yields as many nodes and as
\* many edges in O' as in O, with the audit fields of each record preserved.
C28_SnapshotRoundTrip ==
    [][ \A from, to \in Orgs :
          SnapshotImportStep(from, to) =>
              /\ Cardinality(RowsOf(nodes', to)) = Cardinality(RowsOf(nodes, from))
              /\ Cardinality(RowsOf(edges', to)) = Cardinality(RowsOf(edges, from))
              /\ \A r \in RowsOf(nodes, from) : Preserved(r, nodes', to)
              /\ \A r \in RowsOf(edges, from) : Preserved(r, edges', to) ]_vars

\* Entries i and i + 1 of the history are the same import, answered 200
\* both times.
ImportedTwice(i) ==
    /\ i \in Past /\ i + 1 <= Len(log)
    /\ HandlerOf(i) = "importMetadata" /\ HandlerOf(i + 1) = "importMetadata"
    /\ log[i].rq = log[i + 1].rq
    /\ log[i].resp.status = 200 /\ log[i + 1].resp.status = 200

\* C29: importing the same payload twice into the same org leaves the
\* durable store and the node cache in the state importing it once leaves.
C29_ImportTwiceIsImportOnce ==
    \A i \in 1..Len(log) :
        ImportedTwice(i) =>
            /\ log[i + 1].nodes = log[i].nodes
            /\ log[i + 1].edges = log[i].edges
            /\ log[i + 1].kv = log[i].kv

\* An import that changed the rows and the cache was sent again.
C29_Witness ==
    \E i \in 1..Len(log) :
        /\ ImportedTwice(i)
        /\ log[i].nodes # log[i - 1].nodes
        /\ log[i].edges # log[i - 1].edges
        /\ log[i].kv # log[i - 1].kv

(***************************************************************************)
(* Pagination.                                                             *)
(***************************************************************************)
\* The pagination block of page p, and the ids of its data.
PaginationOf(p) == JSONparse(fn.pages[p].body).pagination
IdsOf(p) ==
    LET data == JSONparse(fn.pages[p].body).data
    IN  [i \in 1..Len(data) |-> data[i].id]

\* The pages 1..total_pages, as the first page counts them: none when
\* total_pages is null.
PagesToRead ==
    LET total == PaginationOf(1).total_pages
    IN  IF total = Null THEN {} ELSE 1..total.val

\* The first page has come, and so has every page up to total_pages.
AllPagesRead ==
    /\ Paging /\ Len(fn.pages) >= 1
    /\ \A p \in PagesToRead : p <= Len(fn.pages)

RECURSIVE SizeOf(_)
\* The sizes of the pages, added up.
SizeOf(pages) ==
    IF pages = {} THEN 0
    ELSE LET p == CHOOSE x \in pages : TRUE
         IN  Len(IdsOf(p)) + SizeOf(pages \ {p})

\* The ids of the nodes of the org that match the query's filter.
MatchingIds == {r.id : r \in {n \in nodes : Filtered(n, fn.orgId, fn.query)}}

\* The pages read hold every matching node exactly once.
ExactlyOnce ==
        /\ SizeOf(PagesToRead) = PaginationOf(1).total_records
        /\ \A p, q \in PagesToRead : \A i \in 1..Len(IdsOf(p)), j \in 1..Len(IdsOf(q)) :
               IdsOf(p)[i] = IdsOf(q)[j] => (p = q /\ i = j)
        /\ \A id \in MatchingIds :
               \E p \in PagesToRead : \E i \in 1..Len(IdsOf(p)) : IdsOf(p)[i] = id

\* C30: for GET /:org/nodes with fixed filter, sort and limit over unchanged
\* data, the pages 1..total_pages together return every matching node
\* exactly once: the sizes of the pages add up to total_records, no node is
\* on two pages and none is skipped.
C30_PagesPartitionMatches == AllPagesRead => ExactlyOnce

\* With a limit of at least 1 the pages do hold every matching node exactly
\* once.
PartitionFromLimitOne ==
    (AllPagesRead /\ PaginationOf(1).limit >= 1) => ExactlyOnce

\* Three nodes, two of them created at the same time, read in two pages of
\* two and one.
TwoPagesRead ==
    /\ AllPagesRead /\ PaginationOf(1).limit = 2
    /\ PagesToRead = {1, 2}
    /\ Len(IdsOf(1)) = 2 /\ Len(IdsOf(2)) = 1

(***************************************************************************)
(* Cache keys.                                                             *)
(***************************************************************************)
\* C31: distinct (org, node id) pairs never share a cache key: the node a
\* GET returns is the node of the org and of the id the GET is addressed to,
\* never a node cached for another org or another id.
C31_CacheKeyPerOrgAndNode ==
    (pc = "done" /\ handler = "getNode" /\ resp.status = 200) =>
        /\ JSONparse(resp.body).org_id = OrgId
        /\ JSONparse(resp.body).id = IdParam


(***************************************************************************)
(* The audit level.                                                        *)
(***************************************************************************)
\* C35: a token whose only scope for an org is <org>:audit is denied the
\* operations of that org which require the read level or the write level.
C35_AuditExcludesReadAndWrite ==
    (/\ HasPermissionApplied
     /\ fn.orgId # <<>>
     /\ fn.requiredLevel \in {Read, Write}
     /\ fn.scopes = <<<<fn.orgId, Audit>>>>)
        => ~fn.result


(***************************************************************************)
(* Failures of the stores.                                                 *)
(***************************************************************************)
\* C32: every failure of the durable store, the cache, the object store, the
\* embedding provider or the vector index while a request is handled gives a
\* 500 response whose body carries both error and requestId.  Stated on the
\* failures of the embedding provider and of the vector index in createEdge.
C32_FailureGives500WithRequestId ==
    [][ VectorizationFails =>
          /\ resp'.status = 500
          /\ Has(JSONparse(resp'.body), "error")
          /\ Has(JSONparse(resp'.body), "requestId") ]_vars


(***************************************************************************)
(* The count of deleted edges.                                             *)
(***************************************************************************)
DeleteNodeStep == pc = "handler" /\ handler = "deleteNode"

\* C39: deleted_edges in the answer of DELETE /:org/nodes/:id is the number
\* of distinct edge rows the request removed, self-loop edges included.
C39_DeletedEdgesCountsRows ==
    [][ (DeleteNodeStep /\ resp'.status = 200) =>
          JSONparse(resp'.body).deleted_edges = Cardinality(edges \ edges') ]_vars


(***************************************************************************)
(* The principal in the audit fields.                                      *)
(***************************************************************************)
WriteStep ==
    /\ pc = "handler"
    /\ handler \in {"createNode", "updateNode", "createEdge", "updateEdge",
                    "importMetadata"}

\* The rows this step wrote name the principal: updated_by of every row, and
\* created_by of every row whose key was not in the table.
RecordedBy(sub, old, new) ==
    \A r \in new \ old :
        /\ r.updated_by = sub
        /\ (\A o \in old : ~(o.id = r.id /\ o.org_id = r.org_id)) => r.created_by = sub

\* An import whose items carry audit fields of their own.
CarriesAuditFields ==
    /\ handler = "importMetadata" /\ rq.body # NoBody
    /\ \/ \E i \in 1..Len(rq.body.nodes) :
             Has(rq.body.nodes[i], "created_by") \/ Has(rq.body.nodes[i], "updated_by")
       \/ \E i \in 1..Len(rq.body.edges) :
             Has(rq.body.edges[i], "created_by") \/ Has(rq.body.edges[i], "updated_by")

\* C38 (as stated): the principal recorded in created_by and updated_by of
\* any node or edge written through an authenticated route, imports
\* included, is the verified token's sub, also when the client's request
\* carries an X-User-ID header of its own.
C38_PrincipalIsAlwaysTokenSub ==
    [][ WriteStep =>
          /\ RecordedBy(rq.token.sub, nodes, nodes')
          /\ RecordedBy(rq.token.sub, edges, edges') ]_vars

\* C38 (amended): the principal recorded in created_by and updated_by of a node or an
\* edge written through an authenticated route is the verified token's sub,
\* also when the client's request carries an X-User-ID header of its own;
\* an import whose items carry audit fields of their own keeps those.
C38_PrincipalIsTokenSub ==
    [][ (WriteStep /\ ~CarriesAuditFields) =>
          /\ RecordedBy(rq.token.sub, nodes, nodes')
          /\ RecordedBy(rq.token.sub, edges, edges') ]_vars

\* A node was created on a request whose X-User-ID header named another
\* principal than the token, and the row names the token's.
C38_Witness ==
    /\ pc = "done" /\ handler = "createNode" /\ resp.status = 200
    /\ Has(rq, "userId") /\ rq.userId # rq.token.sub
    /\ \E r \in nodes : r.org_id = OrgId /\ r.created_by = rq.token.sub


(***************************************************************************)
(* A DELETE beside a concurrent GET.                                       *)
(***************************************************************************)
\* No request is being handled: the worker is idle and the concurrent GET is
\* not between its read of the row and its write of the cache.
NothingInFlight == pc = "idle" /\ other.at # "found"

\* A DELETE of node n1 of org a was answered 200 and no request of the
\* history failed.
DeletedWithoutFailure ==
    /\ \E i \in Past : Succeeded(i, "deleteNode")
    /\ \A i \in Past : log[i].resp.status # 500

\* C36: when a GET (with its cache backfill) or a PUT on node I runs
\* concurrently with a DELETE of I then, once all of them have completed,
\* the cache holds no entry node:<org>:I unless a row for I exists in the
\* durable store.
C36_NoCacheEntryWithoutRow ==
    (life /\ NothingInFlight /\ DeletedWithoutFailure) =>
        (NodeKey(OrgA, N1) \in DOMAIN kv => Select(nodes, N1, OrgA) # {})


(***************************************************************************)
(* Two writers of one node.                                                *)
(***************************************************************************)
\* Both requests have returned: no write is in flight.
WritersReturned == Writing /\ \A i \in 1..2 : fn.calls[i].at = "returned"

\* Some request wrote the cache entry.
SomeWriterWrote == \E i \in 1..2 : fn.calls[i].node # Null

\* C37: after any set of concurrent PUT or POST requests on the same node
\* has completed and no write is in flight, the cache entry
\* node:<org>:<id> equals the row of the durable store.
C37_CacheEqualsRowAfterWrites ==
    (WritersReturned /\ SomeWriterWrote) =>
        /\ NodeKey(OrgA, N1) \in DOMAIN kv
        /\ \E r \in Select(nodes, N1, OrgA) :
               kv[NodeKey(OrgA, N1)] = JSONstringify(FromRow(r))


(***************************************************************************)
(* Concurrent refreshes of the key set.                                    *)
(***************************************************************************)
\* Both calls of authenticate have returned.
RefreshesReturned == Refreshing /\ \A i \in 1..2 : fn.calls[i].at = "returned"

\* C33: concurrent refresh attempts of the gate's process-wide JWKS cache
\* leave it consistent: after all of them have completed, the cache holds
\* one of the fetched key sets in full and the recorded fetch time is that
\* of a refresh which actually completed.
C33_JwksCacheConsistent ==
    (RefreshesReturned /\ fn.completed # {}) =>
        /\ \E d \in fn.completed : cachedJwks = d.jwks
        /\ \E d \in fn.completed : lastJwksFetch = d.time

\* Two refreshes that started at different times completed with different
\* key sets.
C33_Witness ==
    /\ RefreshesReturned
    /\ \E d, e \in fn.completed : d.jwks # e.jwks /\ d.time # e.time


(***************************************************************************)
(* The session cookie of the callback.                                     *)
(***************************************************************************)
CallbackReturned == Calling /\ fn.at = "returned"

CodeSupplied == Has(fn.code, "value") /\ fn.code.value # <<>>

====
